---------------------------- MODULE Spec2Model ----------------------------
(***************************************************************************)
(* Model of the PDF extraction coordinator (src/src/pdf_processor.py), of  *)
(* the persona heuristic engine (src/src/persona_analyzer.py) and of the   *)
(* output formatter (src/src/output_formatter.py).                         *)
(*                                                                         *)
(* Representation of strings.                                              *)
(*  - Text a PDF library hands back is a sequence of tokens: the token 0   *)
(*    is one newline character, a token n > 0 is a run of n characters     *)
(*    holding no newline and no leading or trailing blank.  len(), strip(),*)
(*    split('\n'), split('\n\n') and slicing are computed on that form.    *)
(*  - A string the processor stores in its result (a section title, a      *)
(*    paragraph) is represented by its length.                             *)
(*  - Text the persona analyzer reads is a sequence of one-character       *)
(*    strings; so is every string the output formatter reads or writes,    *)
(*    except the job descriptions, which it only copies.                   *)
(***************************************************************************)
EXTENDS Integers, Sequences, FiniteSets, TLC

VARIABLES
    pc,           \* position inside PDFProcessor.process_pdf
    file,         \* what the filesystem answers for file_path
    env,          \* what each PDF library answered when it was called
    attempted,    \* the backends run so far, in the order they were run
    result,       \* the value process_pdf returns
    propagated,   \* TRUE iff an exception left process_pdf
    ppc,          \* position inside PersonaAnalyzer.analyze_content
    text_content, \* analyze_content argument: list of {"text": ...} items
    persona_type, \* analyze_content argument: a persona slug or "auto"
    detected,     \* value returned by detect_persona
    analysis,     \* value returned by analyze_content
    fpc,          \* position of the call made to the OutputFormatter
    request,      \* the method called on the OutputFormatter and its arguments
    enhanced_title, \* value returned by _enhance_section_title
    title_again,  \* value returned by _enhance_section_title for enhanced_title
    enhanced_text, \* value returned by _enhance_analysis_text
    merged,       \* format_collection_output: all_sections and
                  \* all_subsection_analysis before the truncation to 5
    report,       \* value returned by format_*_output
    now,          \* int(time.time()), the clock of the server in seconds
    cpc,          \* position of each /process-collection request
    uploads,      \* the files of each accepted request
    task_id,      \* the whole second that names the task of each request
    stored,       \* the uploads done: collection directory, file name, writer
    saved         \* the reports saved: task, time stamp, writer

pdfVars == <<pc, file, env, attempted, result, propagated>>
personaVars == <<ppc, text_content, persona_type, detected, analysis>>
formatterVars ==
    <<fpc, request, enhanced_title, title_again, enhanced_text, merged, report>>
serverVars == <<now, cpc, uploads, task_id, stored, saved>>
vars == <<pc, file, env, attempted, result, propagated,
          ppc, text_content, persona_type, detected, analysis,
          fpc, request, enhanced_title, title_again, enhanced_text, merged,
          report, now, cpc, uploads, task_id, stored, saved>>

(***************************************************************************)
(* Bounds of the model.                                                    *)
(***************************************************************************)
MaxPages == 2
MaxItems == 2

(***************************************************************************)
(* Generic helpers.                                                        *)
(***************************************************************************)
Absent == "<absent>"

Min(a, b) == IF a <= b THEN a ELSE b

SeqsUpTo(S, n) == UNION {[1..k -> S] : k \in 0..n}

\* Python's s[:n] on a sequence.
Take(s, n) == SubSeq(s, 1, Min(Len(s), n))

\* Python truthiness of dict.get(key) for a string-valued key.
Truthy(v) == v # Absent /\ v # ""

\* F applied to the value of v, v being evaluated once (a local variable).
Bind(v, F(_)) == CHOOSE r \in {F(x) : x \in {v}} : TRUE

\* The sequence f as an explicit tuple.
ToTuple(f) == SubSeq(f, 1, Len(f))

\* The letter x written n times.
Letters(n) == ToTuple([i \in 1..n |-> "x"])

(***************************************************************************)
(* Token texts: str operations the extractors use.                         *)
(***************************************************************************)
RECURSIVE StrLen(_)
StrLen(t) == IF t = <<>> THEN 0
             ELSE (IF Head(t) = 0 THEN 1 ELSE Head(t)) + StrLen(Tail(t))

RECURSIVE LStrip(_)
LStrip(t) == IF t # <<>> /\ Head(t) = 0 THEN LStrip(Tail(t)) ELSE t

RECURSIVE RStrip(_)
RStrip(t) == IF t # <<>> /\ t[Len(t)] = 0
             THEN RStrip(SubSeq(t, 1, Len(t) - 1)) ELSE t

\* str.strip()
Strip(t) == RStrip(LStrip(t))

\* text.split('\n'): the lengths of the lines, in order.
RECURSIVE SplitLinesFrom(_, _)
SplitLinesFrom(t, cur) ==
    IF t = <<>> THEN <<cur>>
    ELSE IF Head(t) = 0 THEN <<cur>> \o SplitLinesFrom(Tail(t), 0)
    ELSE SplitLinesFrom(Tail(t), cur + Head(t))

SplitLines(t) == SplitLinesFrom(t, 0)

\* text.split('\n\n'): the pieces, left to right, separators not overlapping.
RECURSIVE SplitParasFrom(_, _)
SplitParasFrom(t, cur) ==
    IF t = <<>> THEN <<cur>>
    ELSE IF Len(t) >= 2 /\ t[1] = 0 /\ t[2] = 0
         THEN <<cur>> \o SplitParasFrom(Tail(Tail(t)), <<>>)
    ELSE SplitParasFrom(Tail(t), Append(cur, Head(t)))

SplitParas(t) == SplitParasFrom(t, <<>>)

NonBlank(p) == Strip(p) # <<>>

\* [p.strip() for p in text.split('\n\n') if p.strip()]
Paragraphs(t) ==
    LET kept == SelectSeq(SplitParas(t), NonBlank)
    IN  [i \in 1..Len(kept) |-> Strip(kept[i])]

\* t[:n]
RECURSIVE TakeChars(_, _)
TakeChars(t, n) ==
    IF t = <<>> \/ n = 0 THEN <<>>
    ELSE IF Head(t) = 0 THEN <<0>> \o TakeChars(Tail(t), n - 1)
    ELSE IF Head(t) >= n THEN <<n>>
    ELSE <<Head(t)>> \o TakeChars(Tail(t), n - Head(t))


RECURSIVE Concat(_)
Concat(ss) == IF ss = <<>> THEN <<>> ELSE Head(ss) \o Concat(Tail(ss))

(***************************************************************************)
(* Constants of the extractors.                                            *)
(***************************************************************************)
MaxTitleLen == 100
MaxTextLen == 500
MinParagraphLen == 20
ParagraphsPerPage == 3
MaxSections == 10
HeaderFontSize == 11
MinHeaderLen == 5
LinesChecked == 5
MinLineLen == 10
MaxLineLen == 100

(***************************************************************************)
(* Results.                                                                *)
(***************************************************************************)
\* _get_default_metadata
DefaultMetadata ==
    [title |-> "PDF Document", author |-> "Unknown", subject |-> "PDF Content",
     creator |-> "PDF Processor", producer |-> "Unknown",
     pages |-> 1, file_size |-> 0]

\* _create_error_result
CreateErrorResult(error_message) ==
    [metadata |-> DefaultMetadata,
     structure |-> [sections |-> <<>>, total_pages |-> 1],
     content |-> [text_content |-> <<>>, total_paragraphs |-> 0],
     error |-> error_message,
     processing_method |-> "Error",
     warning |-> Absent]

\* The dict a backend builds on success.
MakeResult(metadata, structure, content, method, warning) ==
    [metadata |-> metadata, structure |-> structure, content |-> content,
     error |-> Absent, processing_method |-> method, warning |-> warning]

\* What a call gives back: a returned value or a raised exception.
Return(v) == [kind |-> "return", value |-> v, exc |-> Absent]
Raise(e) == [kind |-> "raise", value |-> CreateErrorResult(Absent), exc |-> e]

(***************************************************************************)
(* Content extraction: the three _extract_content_* functions share the    *)
(* paragraph loop and differ in the test applied to the page text.         *)
(***************************************************************************)
\* The loop over all the paragraphs of the page.
PageParagraphEntriesUnlimited(text, page_num) ==
    LET ps == Paragraphs(text)
        long(p) == StrLen(p) > MinParagraphLen
        kept == SelectSeq(ps, long)
    IN  [i \in 1..Len(kept) |->
            [text |-> TakeChars(kept[i], MaxTextLen), page |-> page_num]]

\* for paragraph in paragraphs[:3]: if len(paragraph) > 20: append(...)
PageParagraphEntries(text, page_num) ==
    LET ps == Take(Paragraphs(text), ParagraphsPerPage)
        long(p) == StrLen(p) > MinParagraphLen
        kept == SelectSeq(ps, long)
    IN  [i \in 1..Len(kept) |->
            [text |-> TakeChars(kept[i], MaxTextLen), page |-> page_num]]

\* text.strip() is truthy (PyMuPDF) / text is truthy (PyPDF2, pdfplumber)
HasStrippedText(text) == Strip(text) # <<>>
HasText(text) == text # <<>>

ContentOfBad(entries) ==
    [text_content |-> entries, total_paragraphs |-> Len(entries) + 1]

ContentOf(entries) ==
    [text_content |-> entries, total_paragraphs |-> Len(entries)]

EmptyContent == [text_content |-> <<>>, total_paragraphs |-> 0]

\* _extract_content_fitz; fault = "content" makes page.get_text() raise.
ExtractContentFitz(doc, fault) ==
    IF fault = "content" /\ Len(doc.pages) > 0 THEN EmptyContent
    ELSE ContentOf(Concat([i \in 1..Len(doc.pages) |->
            IF HasStrippedText(doc.pages[i].text)
            THEN PageParagraphEntries(doc.pages[i].text, i) ELSE <<>>]))

\* _extract_content_pypdf2; fault = "content" makes page.extract_text() raise.
ExtractContentPypdf2(doc, fault) ==
    IF fault = "content" /\ Len(doc.pages) > 0 THEN EmptyContent
    ELSE ContentOf(Concat([i \in 1..Len(doc.pages) |->
            IF HasText(doc.pages[i].text)
            THEN PageParagraphEntries(doc.pages[i].text, i) ELSE <<>>]))

\* _extract_content_pdfplumber
ExtractContentPdfplumber(doc, fault) ==
    IF fault = "content" /\ Len(doc.pages) > 0 THEN EmptyContent
    ELSE ContentOf(Concat([i \in 1..Len(doc.pages) |->
            IF HasText(doc.pages[i].text)
            THEN PageParagraphEntries(doc.pages[i].text, i) ELSE <<>>]))

(***************************************************************************)
(* Structure extraction.                                                   *)
(***************************************************************************)
\* The span loop of one line: the first span whose stripped text is longer
\* than 5 characters and whose size is above 11 is recorded, then `break`
\* leaves the span loop (and only that loop).
RECURSIVE LineSections(_, _)
LineSections(spans, page_num) ==
    IF spans = <<>> THEN <<>>
    ELSE LET span == Head(spans)
         IN  IF span.len > MinHeaderLen /\ span.size > HeaderFontSize
             THEN <<[title |-> Min(span.len, MaxTitleLen),
                     page |-> page_num, font_size |-> span.size]>>
             ELSE LineSections(Tail(spans), page_num)

\* for block in blocks: if "lines" in block: for line in block["lines"]: ...
BlockSections(block, page_num) ==
    IF block.has_lines
    THEN Concat([j \in 1..Len(block.lines) |->
                    LineSections(block.lines[j], page_num)])
    ELSE <<>>

PageSectionsFitz(page, page_num) ==
    Concat([b \in 1..Len(page.blocks) |-> BlockSections(page.blocks[b], page_num)])

\* _extract_structure_fitz; fault = "struct" makes page.get_text("dict") raise.
ExtractStructureFitz(doc, fault) ==
    IF fault = "struct" /\ Len(doc.pages) > 0
    THEN [sections |-> <<>>, total_pages |-> Len(doc.pages)]
    ELSE [sections |-> Take(Concat([i \in 1..Len(doc.pages) |->
                            PageSectionsFitz(doc.pages[i], i)]), MaxSections),
          total_pages |-> Len(doc.pages)]

\* for line in lines[:5]: if 10 < len(line.strip()) < 100: append; break
RECURSIVE FirstHeaderLine(_, _)
FirstHeaderLine(lines, page_num) ==
    IF lines = <<>> THEN <<>>
    ELSE IF Head(lines) > MinLineLen /\ Head(lines) < MaxLineLen
         THEN <<[title |-> Min(Head(lines), MaxTitleLen),
                 page |-> page_num, font_size |-> 12]>>
         ELSE FirstHeaderLine(Tail(lines), page_num)

PageSectionsPypdf2(text, page_num) ==
    IF HasText(text)
    THEN FirstHeaderLine(Take(SplitLines(text), LinesChecked), page_num)
    ELSE <<>>

\* _extract_structure_pypdf2
ExtractStructurePypdf2(doc, fault) ==
    IF fault = "struct" /\ Len(doc.pages) > 0
    THEN [sections |-> <<>>, total_pages |-> Len(doc.pages)]
    ELSE [sections |-> Take(Concat([i \in 1..Len(doc.pages) |->
                            PageSectionsPypdf2(doc.pages[i].text, i)]), MaxSections),
          total_pages |-> Len(doc.pages)]

\* The title f"Page {n} Content" as its length (one-digit page numbers).
PageTitleLen == 14

\* _extract_structure_pdfplumber
ExtractStructurePdfplumber(doc, fault) ==
    IF fault = "struct" /\ Len(doc.pages) > 0
    THEN [sections |-> <<>>, total_pages |-> Len(doc.pages)]
    ELSE [sections |-> Take(Concat([i \in 1..Len(doc.pages) |->
                            IF HasText(doc.pages[i].text)
                            THEN <<[title |-> PageTitleLen, page |-> i,
                                    font_size |-> 12]>>
                            ELSE <<>>]), MaxSections),
          total_pages |-> Len(doc.pages)]

(***************************************************************************)
(* Metadata extraction.                                                    *)
(***************************************************************************)
\* _extract_metadata_fitz; fault = "meta" makes doc.metadata unusable.
ExtractMetadataFitz(doc, fault, size) ==
    IF fault = "meta" THEN DefaultMetadata
    ELSE [title |-> doc.info.title, author |-> doc.info.author,
          subject |-> doc.info.subject, creator |-> doc.info.creator,
          producer |-> doc.info.producer,
          pages |-> Len(doc.pages), file_size |-> size]

\* _extract_metadata_pypdf2
ExtractMetadataPypdf2(doc, fault) ==
    IF fault = "meta" THEN DefaultMetadata
    ELSE [title |-> doc.info.title, author |-> doc.info.author,
          subject |-> doc.info.subject, creator |-> doc.info.creator,
          producer |-> doc.info.producer,
          pages |-> Len(doc.pages), file_size |-> 0]

\* _extract_metadata_pdfplumber
ExtractMetadataPdfplumber(doc, fault) ==
    IF fault = "meta" THEN DefaultMetadata
    ELSE [title |-> "PDF Document", author |-> "Unknown",
          subject |-> "PDF Content", creator |-> "pdfplumber",
          producer |-> "Unknown",
          pages |-> Len(doc.pages), file_size |-> 0]

(***************************************************************************)
(* The four backends.  `a` is what the library answered for the file:      *)
(* a.fault names where the library raised (or "none"), a.doc is the        *)
(* document it opened.  Every backend wraps its body in try/except and     *)
(* turns an exception into an error result.                                *)
(***************************************************************************)
\* _process_with_fitz
ProcessWithFitz(a, size) ==
    IF a.fault = "open"
    THEN Return(CreateErrorResult("PyMuPDF error: cannot open file"))
    ELSE IF a.fault = "encrypted"
    THEN Return(CreateErrorResult("Password-protected PDF"))
    ELSE Return(MakeResult(ExtractMetadataFitz(a.doc, a.fault, size),
                           ExtractStructureFitz(a.doc, a.fault),
                           ExtractContentFitz(a.doc, a.fault),
                           "PyMuPDF", Absent))

\* _process_with_pypdf2
ProcessWithPypdf2(a) ==
    IF a.fault = "open"
    THEN Return(CreateErrorResult("PyPDF2 error: cannot read file"))
    ELSE IF a.fault = "encrypted"
    THEN Return(CreateErrorResult("Password-protected PDF"))
    ELSE Return(MakeResult(ExtractMetadataPypdf2(a.doc, a.fault),
                           ExtractStructurePypdf2(a.doc, a.fault),
                           ExtractContentPypdf2(a.doc, a.fault),
                           "PyPDF2", Absent))

\* _process_with_pdfplumber
ProcessWithPdfplumber(a) ==
    IF a.fault = "open"
    THEN Return(CreateErrorResult("pdfplumber error: cannot open file"))
    ELSE Return(MakeResult(ExtractMetadataPdfplumber(a.doc, a.fault),
                           ExtractStructurePdfplumber(a.doc, a.fault),
                           ExtractContentPdfplumber(a.doc, a.fault),
                           "pdfplumber", Absent))

\* Lengths of the literals "Document Content" and
\* "PDF content could not be extracted".
BasicTitleLen == 16
BasicTextLen == 34

\* _process_basic; fault = "getsize" makes os.path.getsize raise.
ProcessBasic(a, f) ==
    IF a.fault = "getsize"
    THEN Return(CreateErrorResult("Basic processing error: cannot stat file"))
    ELSE Return(MakeResult(
            [title |-> f.name, author |-> "Unknown", subject |-> "PDF Document",
             creator |-> "Unknown", producer |-> "Unknown",
             pages |-> 1, file_size |-> f.size],
            [sections |-> <<[title |-> BasicTitleLen, page |-> 1, font_size |-> 12]>>,
             total_pages |-> 1],
            [text_content |-> <<[text |-> <<BasicTextLen>>, page |-> 1]>>,
             total_paragraphs |-> 1],
            "Basic", "Limited content extraction"))

(***************************************************************************)
(* The coordinator, _process_with_fallback.                                *)
(***************************************************************************)
BackendOrder == <<"PyMuPDF", "PyPDF2", "pdfplumber", "Basic">>

IndexOf(b) == CHOOSE i \in 1..Len(BackendOrder) : BackendOrder[i] = b

\* The statement that follows the try block of backend b.
NextBackendBad(b) ==
    IF b = "PyMuPDF" THEN "pdfplumber"
    ELSE IF b = "pdfplumber" THEN "PyPDF2"
    ELSE "Basic"

NextBackend(b) == BackendOrder[IndexOf(b) + 1]

\* if result and not result.get("error")
AcceptsBad(r) == r.kind = "return"

Accepts(r) == r.kind = "return" /\ ~Truthy(r.value.error)

AllFailedMessage == "All processing methods failed"

\* One try block of the coordinator, given what backend b answered (r) and
\* the value the local variable `result` held before (old): return the
\* result, or fall through to the next block (an exception is logged and
\* falls through too, leaving `result` as it was); after the last block comes
\* the synthesized failure.
AfterAttemptReturnsLast(b, r, old) ==
    IF Accepts(r) THEN [pc |-> "done", result |-> r.value]
    ELSE IF b = "Basic" THEN [pc |-> "done", result |-> r.value]
    ELSE [pc |-> NextBackend(b), result |-> r.value]

AfterAttemptMerges(b, r, old) ==
    IF Accepts(r)
    THEN [pc |-> "done",
          result |-> IF Truthy(old.error) /\ b # "PyMuPDF"
                     THEN [r.value EXCEPT !.error = old.error] ELSE r.value]
    ELSE IF b = "Basic"
         THEN [pc |-> "done", result |-> CreateErrorResult(AllFailedMessage)]
         ELSE [pc |-> NextBackend(b), result |-> r.value]

AfterAttemptAbortsOnPassword(b, r, old) ==
    IF Accepts(r) \/ (r.kind = "return" /\ r.value.error = "Password-protected PDF")
    THEN [pc |-> "done", result |-> r.value]
    ELSE IF b = "Basic"
         THEN [pc |-> "done", result |-> CreateErrorResult(AllFailedMessage)]
         ELSE [pc |-> NextBackend(b), result |-> r.value]

\* The coordinator without its fourth try block.
AfterAttemptWithoutBasic(b, r, old) ==
    IF Accepts(r) THEN [pc |-> "done", result |-> r.value]
    ELSE IF b \in {"pdfplumber", "Basic"}
         THEN [pc |-> "done", result |-> CreateErrorResult(AllFailedMessage)]
         ELSE [pc |-> NextBackend(b),
               result |-> IF r.kind = "return" THEN r.value ELSE old]

AfterAttempt(b, r, old) ==
    IF Accepts(r) THEN [pc |-> "done", result |-> r.value]
    ELSE IF b = "Basic"
         THEN [pc |-> "done", result |-> CreateErrorResult(AllFailedMessage)]
         ELSE [pc |-> NextBackend(b),
               result |-> IF r.kind = "return" THEN r.value ELSE old]

(***************************************************************************)
(* Inputs: the file, and what each library makes of it.                    *)
(***************************************************************************)
FileSize == 2048

Files ==
    {[state |-> st, size |-> IF st = "empty" THEN 0 ELSE FileSize, name |-> "doc.pdf"] :
        st \in {"missing", "unreadable", "empty", "stat_error", "ok"}}

DocInfo == [title |-> "Annual Report", author |-> "", subject |-> "",
            creator |-> "Writer", producer |-> ""]

\* A page as PyMuPDF reports it: get_text() and get_text("dict")["blocks"].
\* A span is its stripped text's length and its font size.
HeadingLine == <<[len |-> 8, size |-> 12]>>

FitzPageKinds ==
    { [text |-> <<25, 0, 0, 600, 0, 0, 0, 10, 0, 0, 30>>,
       blocks |-> << [has_lines |-> TRUE,
                      lines |-> << <<[len |-> 3, size |-> 14],
                                     [len |-> 8, size |-> 10],
                                     [len |-> 120, size |-> 14],
                                     [len |-> 9, size |-> 16]>>,
                                   <<[len |-> 7, size |-> 12]>> >>],
                     [has_lines |-> FALSE, lines |-> <<>>] >>],
      [text |-> <<>>, blocks |-> <<>>],
      [text |-> <<12>>,
       blocks |-> << [has_lines |-> TRUE,
                      lines |-> << <<[len |-> 12, size |-> 11]>> >>] >>],
      [text |-> <<0, 0, 21>>,
       blocks |-> << [has_lines |-> TRUE,
                      lines |-> <<HeadingLine, HeadingLine, HeadingLine,
                                  HeadingLine, HeadingLine, HeadingLine>>] >>] }

\* A page as PyPDF2 and pdfplumber report it: extract_text().
Pypdf2PageKinds ==
    { [text |-> <<25, 0, 0, 600, 0, 0, 0, 10, 0, 0, 30>>],
      [text |-> <<>>],
      [text |-> <<0, 5, 0, 0, 150, 0, 21>>] }

PdfplumberPageKinds ==
    { [text |-> <<25, 0, 0, 600, 0, 0, 30, 0, 0, 40>>],
      [text |-> <<>>],
      [text |-> <<0>>] }

Docs(kinds) == {[pages |-> ps, info |-> DocInfo] : ps \in SeqsUpTo(kinds, MaxPages)}

NoDoc == [pages |-> <<>>, info |-> DocInfo]

Answers(kinds, refusals, inner) ==
    {[fault |-> f, doc |-> NoDoc] : f \in refusals}
    \cup {[fault |-> f, doc |-> d] : f \in inner, d \in Docs(kinds)}

InnerFaults == {"none", "meta", "struct", "content"}

FitzAnswers == Answers(FitzPageKinds, {"open", "encrypted"}, InnerFaults)
Pypdf2Answers == Answers(Pypdf2PageKinds, {"open", "encrypted"}, InnerFaults)
PdfplumberAnswers == Answers(PdfplumberPageKinds, {"open"}, InnerFaults)
BasicAnswers == Answers({}, {"getsize", "none"}, {})

NotCalled == [fault |-> "not called", doc |-> NoDoc]

(***************************************************************************)
(* process_pdf as a state machine.                                         *)
(***************************************************************************)
NoResult == CreateErrorResult("<no result yet>")

PersonaIdle ==
    /\ ppc = "idle"
    /\ text_content = <<>>
    /\ persona_type = "auto"
    /\ detected = Absent
    /\ analysis = [persona_type |-> Absent, word_count |-> 0,
                   persona |-> [reported |-> FALSE, keyword_total |-> 0,
                                relevance_score |-> 0],
                   error |-> FALSE]

\* No call of the output formatter is in progress.
NoRequest ==
    [op |-> "none", document_name |-> <<>>, original_title |-> <<>>,
     original_text |-> <<>>,
     filename |-> <<>>,
     metadata |-> [title |-> <<>>, subject |-> <<>>, pages |-> 0],
     structure |-> [sections |-> <<>>],
     content |-> [text_content |-> <<>>],
     persona_config |-> [kind |-> "none", persona_type |-> <<>>],
     results |-> <<>>]

\* The two /process-collection requests, and the server before any of them
\* has arrived.
Requests == {1, 2}

NoTask == -1

ServerIdle ==
    /\ now = 0
    /\ cpc = [r \in Requests |-> [state |-> "idle", index |-> 0]]
    /\ uploads = [r \in Requests |-> <<>>]
    /\ task_id = [r \in Requests |-> NoTask]
    /\ stored = {}
    /\ saved = {}

NoMerged == [sections |-> <<>>, analysis |-> <<>>]

NoReport ==
    [metadata |-> [input_documents |-> <<>>, persona |-> <<>>,
                   job_to_be_done |-> Absent, error |-> FALSE],
     extracted_sections |-> <<>>, subsection_analysis |-> <<>>]

FormatterIdle ==
    /\ fpc = "idle"
    /\ request = NoRequest
    /\ enhanced_title = <<>>
    /\ title_again = <<>>
    /\ enhanced_text = <<>>
    /\ merged = NoMerged
    /\ report = NoReport

Init ==
    /\ pc = "start"
    /\ file \in Files
    /\ env = [fitz |-> NotCalled, pypdf2 |-> NotCalled,
              pdfplumber |-> NotCalled, basic |-> NotCalled]
    /\ attempted = <<>>
    /\ result = NoResult
    /\ propagated = FALSE
    /\ PersonaIdle
    /\ FormatterIdle
    /\ ServerIdle

\* The checks process_pdf makes before it calls the coordinator; an
\* exception of os.path.getsize is caught by process_pdf's own handler.
PrecheckNoSize(f) ==
    IF f.state = "missing" THEN "File not found"
    ELSE IF f.state = "unreadable" THEN "File not readable"
    ELSE IF f.state = "stat_error" THEN "[Errno 2] No such file or directory"
    ELSE Absent

Precheck(f) ==
    IF f.state = "missing" THEN "File not found"
    ELSE IF f.state = "unreadable" THEN "File not readable"
    ELSE IF f.state = "stat_error" THEN "[Errno 2] No such file or directory"
    ELSE IF f.size = 0 THEN "Empty file"
    ELSE Absent

\* process_pdf up to the call of _process_with_fallback.
ProcessPdf ==
    /\ pc = "start"
    /\ IF Precheck(file) # Absent
       THEN /\ pc' = "done"
            /\ result' = CreateErrorResult(Precheck(file))
       ELSE /\ pc' = BackendOrder[1]
            /\ UNCHANGED result
    /\ propagated' = FALSE
    /\ UNCHANGED <<file, env, attempted>>
    /\ UNCHANGED personaVars
    /\ UNCHANGED formatterVars
    /\ UNCHANGED serverVars

Attempt(b, r) ==
    /\ attempted' = Append(attempted, b)
    /\ pc' = AfterAttempt(b, r, result).pc
    /\ result' = AfterAttempt(b, r, result).result
    /\ propagated' = FALSE
    /\ UNCHANGED file
    /\ UNCHANGED personaVars
    /\ UNCHANGED formatterVars
    /\ UNCHANGED serverVars

TryFitz ==
    /\ pc = "PyMuPDF"
    /\ \E a \in FitzAnswers :
        /\ env' = [env EXCEPT !.fitz = a]
        /\ Attempt("PyMuPDF", ProcessWithFitz(a, file.size))

TryPypdf2 ==
    /\ pc = "PyPDF2"
    /\ \E a \in Pypdf2Answers :
        /\ env' = [env EXCEPT !.pypdf2 = a]
        /\ Attempt("PyPDF2", ProcessWithPypdf2(a))

TryPdfplumber ==
    /\ pc = "pdfplumber"
    /\ \E a \in PdfplumberAnswers :
        /\ env' = [env EXCEPT !.pdfplumber = a]
        /\ Attempt("pdfplumber", ProcessWithPdfplumber(a))

TryBasic ==
    /\ pc = "Basic"
    /\ \E a \in BasicAnswers :
        /\ env' = [env EXCEPT !.basic = a]
        /\ Attempt("Basic", ProcessBasic(a, file))

Next == ProcessPdf \/ TryFitz \/ TryPypdf2 \/ TryPdfplumber \/ TryBasic

Spec == Init /\ [][Next]_vars

(***************************************************************************)
(* Properties of the extraction coordinator.                               *)
(***************************************************************************)
\* What backend b alone produces from the answer its library gave.
BackendAlone(b) ==
    IF b = "PyMuPDF" THEN ProcessWithFitz(env.fitz, file.size)
    ELSE IF b = "PyPDF2" THEN ProcessWithPypdf2(env.pypdf2)
    ELSE IF b = "pdfplumber" THEN ProcessWithPdfplumber(env.pdfplumber)
    ELSE ProcessBasic(env.basic, file)

AnswerOf(b) ==
    IF b = "PyMuPDF" THEN env.fitz
    ELSE IF b = "PyPDF2" THEN env.pypdf2
    ELSE IF b = "pdfplumber" THEN env.pdfplumber
    ELSE env.basic

\* The backend returned a result that carries no error field.
Succeeded(b) ==
    BackendAlone(b).kind = "return" /\ BackendAlone(b).value.error = Absent

\* The library raised inside the backend.
Threw(b) == AnswerOf(b).fault \in {"open", "getsize"}

\* The backend recognised the document as password-protected.
SawPassword(b) == AnswerOf(b).fault = "encrypted"

Last(s) == s[Len(s)]

IsDefaultErrorResult(r, msg) ==
    /\ r.error = msg
    /\ r.processing_method = "Error"
    /\ r.structure = [sections |-> <<>>, total_pages |-> 1]
    /\ r.content = [text_content |-> <<>>, total_paragraphs |-> 0]
    /\ r.metadata = [title |-> "PDF Document", author |-> "Unknown",
                     subject |-> "PDF Content", creator |-> "PDF Processor",
                     producer |-> "Unknown", pages |-> 1, file_size |-> 0]

\* C1: the backends are attempted in the order PyMuPDF, PyPDF2, pdfplumber,
\* Basic; a backend is attempted only after every earlier one has failed, no
\* backend is attempted after one was accepted, and the value returned is the
\* result of the first backend whose result carries no error field.
C1_FixedOrderFirstAccepted ==
    /\ Len(attempted) <= Len(BackendOrder)
    /\ \A i \in 1..Len(attempted) : attempted[i] = BackendOrder[i]
    /\ \A i \in 1..(Len(attempted) - 1) : ~Succeeded(attempted[i])
    /\ (attempted # <<>> /\ Succeeded(Last(attempted)))
            => (pc = "done" /\ result = BackendAlone(Last(attempted)).value)
    /\ (pc = "done" /\ attempted # <<>> /\ ~Succeeded(Last(attempted)))
            => Len(attempted) = Len(BackendOrder)

C1_Witness ==
    /\ pc = "done"
    /\ attempted = <<"PyMuPDF", "PyPDF2", "pdfplumber">>
    /\ result.processing_method = "pdfplumber"
    /\ result.error = Absent

\* C2: a backend in which the library raises is a soft failure: the
\* coordinator goes on to the next backend of the chain, and no exception
\* leaves _process_with_fallback or process_pdf, whichever backends raise.
C2_FaultsAreSoftFailures ==
    /\ ~propagated
    /\ \A i \in 1..Len(attempted) :
          Threw(attempted[i]) =>
             IF i = Len(BackendOrder)
             THEN pc = "done" /\ result.error = "All processing methods failed"
             ELSE Len(attempted) > i \/ pc = BackendOrder[i + 1]

C2_Witness ==
    /\ pc = "done"
    /\ ~propagated
    /\ Len(attempted) = 4
    /\ \A i \in 1..4 : Threw(attempted[i])

\* C3: when all four backends have failed, the value returned has error
\* "All processing methods failed", no sections, no text content, the
\* default metadata and processing_method "Error".
C3_TotalFailure ==
    (/\ pc = "done"
     /\ Len(attempted) = Len(BackendOrder)
     /\ \A i \in 1..Len(attempted) : ~Succeeded(attempted[i]))
    => /\ IsDefaultErrorResult(result, "All processing methods failed")
       /\ result.structure.sections = <<>>
       /\ result.content.text_content = <<>>

C3_Witness ==
    /\ pc = "done"
    /\ Len(attempted) = 4
    /\ env.fitz.fault = "encrypted"
    /\ env.pypdf2.fault = "open"
    /\ env.pdfplumber.fault = "open"
    /\ env.basic.fault = "getsize"
    /\ result.error = "All processing methods failed"

PrecheckMessage(st) ==
    IF st = "missing" THEN "File not found"
    ELSE IF st = "unreadable" THEN "File not readable"
    ELSE "Empty file"

\* C4: for a missing, unreadable or empty file process_pdf attempts no
\* backend, raises nothing, and returns the default error result with the
\* message that names the failed check.
C4_PreconditionFailure ==
    file.state \in {"missing", "unreadable", "empty"} =>
        /\ attempted = <<>>
        /\ ~propagated
        /\ pc \in {"start", "done"}
        /\ pc = "done" =>
              IsDefaultErrorResult(result, PrecheckMessage(file.state))

C4_Witness ==
    /\ pc = "done"
    /\ file.state = "empty"
    /\ result.error = "Empty file"

\* C5 as stated: whenever PyMuPDF throws, the value returned is what PyPDF2
\* alone produces for the same input.
C5_Original ==
    (pc = "done" /\ attempted # <<>> /\ Threw("PyMuPDF"))
        => result = BackendAlone("PyPDF2").value

\* C5 as amended: whenever PyMuPDF throws and PyPDF2 alone produces a result
\* without an error field, the value returned is identical to that result.
C5_FallbackToSecond ==
    (pc = "done" /\ attempted # <<>> /\ Threw("PyMuPDF") /\ Succeeded("PyPDF2"))
        => result = BackendAlone("PyPDF2").value

C5_Witness ==
    /\ pc = "done"
    /\ env.fitz.fault = "open"
    /\ attempted = <<"PyMuPDF", "PyPDF2">>
    /\ result.processing_method = "PyPDF2"
    /\ result.content.total_paragraphs >= 2

\* C6: every value process_pdf returns has metadata.pages >= 0 and
\* content.total_paragraphs equal to the number of text_content entries.
C6_PagesAndParagraphCount ==
    pc = "done" =>
        /\ result.metadata.pages >= 0
        /\ result.content.total_paragraphs = Len(result.content.text_content)

C6_Witness ==
    /\ pc = "done"
    /\ result.processing_method = "PyMuPDF"
    /\ result.metadata.pages = 2
    /\ Len(result.content.text_content) = 3

\* C7: a backend that reports the document as password-protected fails
\* alone: the next backend is attempted, and unless a later backend is
\* accepted the chain reaches the Basic fallback.
C7_PasswordFailsOneBackend ==
    /\ \A i \in 1..Len(attempted) :
          SawPassword(attempted[i]) =>
              Len(attempted) > i \/ pc = BackendOrder[i + 1]
    /\ (/\ pc = "done"
        /\ \E i \in 1..Len(attempted) : SawPassword(attempted[i])
        /\ \A i \in 1..Len(attempted) :
              attempted[i] # "Basic" => ~Succeeded(attempted[i]))
       => Last(attempted) = "Basic"

C7_Witness ==
    /\ pc = "done"
    /\ env.fitz.fault = "encrypted"
    /\ env.pypdf2.fault = "encrypted"
    /\ attempted = BackendOrder
    /\ result.processing_method = "Basic"

\* C8: an error result returned for a document that some backend recognised
\* as password-protected carries the message "Password-protected PDF".
C8_PasswordMessageSurfaced ==
    (/\ pc = "done"
     /\ Truthy(result.error)
     /\ \E i \in 1..Len(attempted) : SawPassword(attempted[i]))
    => result.error = "Password-protected PDF"

(***************************************************************************)
(* Persona heuristic engine (src/src/persona_analyzer.py).                 *)
(* Text is a sequence of one-character strings.                            *)
(***************************************************************************)
\* The keyword lists of self.personas, in the order of the table.
ResearcherKeywords ==
    << <<"r", "e", "s", "e", "a", "r", "c", "h">>,
       <<"s", "t", "u", "d", "y">>,
       <<"a", "n", "a", "l", "y", "s", "i", "s">>,
       <<"m", "e", "t", "h", "o", "d", "o", "l", "o", "g", "y">>,
       <<"f", "i", "n", "d", "i", "n", "g", "s">>,
       <<"c", "o", "n", "c", "l", "u", "s", "i", "o", "n">>,
       <<"d", "a", "t", "a">>,
       <<"r", "e", "s", "u", "l", "t", "s">>,
       <<"h", "y", "p", "o", "t", "h", "e", "s", "i", "s">>,
       <<"e", "x", "p", "e", "r", "i", "m", "e", "n", "t">> >>

StudentKeywords ==
    << <<"l", "e", "a", "r", "n", "i", "n", "g">>,
       <<"e", "d", "u", "c", "a", "t", "i", "o", "n">>,
       <<"c", "o", "u", "r", "s", "e">>,
       <<"a", "s", "s", "i", "g", "n", "m", "e", "n", "t">>,
       <<"s", "t", "u", "d", "y">>,
       <<"a", "c", "a", "d", "e", "m", "i", "c">>,
       <<"u", "n", "i", "v", "e", "r", "s", "i", "t", "y">>,
       <<"c", "o", "l", "l", "e", "g", "e">>,
       <<"t", "e", "x", "t", "b", "o", "o", "k">>,
       <<"l", "e", "c", "t", "u", "r", "e">> >>

BusinessAnalystKeywords ==
    << <<"b", "u", "s", "i", "n", "e", "s", "s">>,
       <<"m", "a", "r", "k", "e", "t">>,
       <<"s", "t", "r", "a", "t", "e", "g", "y">>,
       <<"a", "n", "a", "l", "y", "s", "i", "s">>,
       <<"r", "e", "p", "o", "r", "t">>,
       <<"f", "i", "n", "a", "n", "c", "i", "a", "l">>,
       <<"p", "e", "r", "f", "o", "r", "m", "a", "n", "c", "e">>,
       <<"m", "e", "t", "r", "i", "c", "s">>,
       <<"r", "e", "v", "e", "n", "u", "e">>,
       <<"p", "r", "o", "f", "i", "t">> >>

TechnicalWriterKeywords ==
    << <<"t", "e", "c", "h", "n", "i", "c", "a", "l">>,
       <<"d", "o", "c", "u", "m", "e", "n", "t", "a", "t", "i", "o", "n">>,
       <<"m", "a", "n", "u", "a", "l">>,
       <<"g", "u", "i", "d", "e">>,
       <<"p", "r", "o", "c", "e", "d", "u", "r", "e">>,
       <<"s", "p", "e", "c", "i", "f", "i", "c", "a", "t", "i", "o", "n">>,
       <<"a", "p", "i">>,
       <<"c", "o", "d", "e">>,
       <<"s", "y", "s", "t", "e", "m">>,
       <<"i", "m", "p", "l", "e", "m", "e", "n", "t", "a", "t", "i", "o", "n">> >>

LegalProfessionalKeywords ==
    << <<"l", "e", "g", "a", "l">>,
       <<"l", "a", "w">>,
       <<"c", "o", "n", "t", "r", "a", "c", "t">>,
       <<"a", "g", "r", "e", "e", "m", "e", "n", "t">>,
       <<"c", "l", "a", "u", "s", "e">>,
       <<"j", "u", "r", "i", "s", "d", "i", "c", "t", "i", "o", "n">>,
       <<"c", "o", "m", "p", "l", "i", "a", "n", "c", "e">>,
       <<"r", "e", "g", "u", "l", "a", "t", "i", "o", "n">>,
       <<"a", "t", "t", "o", "r", "n", "e", "y">>,
       <<"c", "o", "u", "r", "t">> >>

MedicalProfessionalKeywords ==
    << <<"m", "e", "d", "i", "c", "a", "l">>,
       <<"h", "e", "a", "l", "t", "h">>,
       <<"p", "a", "t", "i", "e", "n", "t">>,
       <<"t", "r", "e", "a", "t", "m", "e", "n", "t">>,
       <<"d", "i", "a", "g", "n", "o", "s", "i", "s">>,
       <<"c", "l", "i", "n", "i", "c", "a", "l">>,
       <<"m", "e", "d", "i", "c", "i", "n", "e">>,
       <<"h", "e", "a", "l", "t", "h", "c", "a", "r", "e">>,
       <<"s", "y", "m", "p", "t", "o", "m", "s">>,
       <<"t", "h", "e", "r", "a", "p", "y">> >>

TravelPlannerKeywords ==
    << <<"t", "r", "a", "v", "e", "l">>,
       <<"t", "o", "u", "r", "i", "s", "m">>,
       <<"v", "a", "c", "a", "t", "i", "o", "n">>,
       <<"d", "e", "s", "t", "i", "n", "a", "t", "i", "o", "n">>,
       <<"h", "o", "t", "e", "l">>,
       <<"r", "e", "s", "t", "a", "u", "r", "a", "n", "t">>,
       <<"a", "t", "t", "r", "a", "c", "t", "i", "o", "n">>,
       <<"c", "u", "l", "t", "u", "r", "e">>,
       <<"c", "u", "i", "s", "i", "n", "e">>,
       <<"a", "d", "v", "e", "n", "t", "u", "r", "e">> >>

PersonaOrder ==
    <<"researcher", "student", "business_analyst", "technical_writer",
      "legal_professional", "medical_professional", "travel_planner">>

PersonaKeywords ==
    <<ResearcherKeywords, StudentKeywords, BusinessAnalystKeywords,
      TechnicalWriterKeywords, LegalProfessionalKeywords,
      MedicalProfessionalKeywords, TravelPlannerKeywords>>

IsPersona(p) == \E i \in 1..Len(PersonaOrder) : PersonaOrder[i] = p

KeywordsOf(p) ==
    PersonaKeywords[CHOOSE i \in 1..Len(PersonaOrder) : PersonaOrder[i] = p]

\* Character strings are sequences of characters of Latin-1 (U+0000 to
\* U+00FF); a character beyond Latin-1, which only str.title() produces
\* from them, is written "<U+xxxx>".
\* str.lower(), character by character.
LowerOf ==
    "A" :> "a" @@ "B" :> "b" @@ "C" :> "c" @@ "D" :> "d" @@ "E" :> "e" @@ "F" :> "f" @@
    "G" :> "g" @@ "H" :> "h" @@ "I" :> "i" @@ "J" :> "j" @@ "K" :> "k" @@ "L" :> "l" @@
    "M" :> "m" @@ "N" :> "n" @@ "O" :> "o" @@ "P" :> "p" @@ "Q" :> "q" @@ "R" :> "r" @@
    "S" :> "s" @@ "T" :> "t" @@ "U" :> "u" @@ "V" :> "v" @@ "W" :> "w" @@ "X" :> "x" @@
    "Y" :> "y" @@ "Z" :> "z" @@ "À" :> "à" @@ "Á" :> "á" @@ "Â" :> "â" @@ "Ã" :> "ã" @@
    "Ä" :> "ä" @@ "Å" :> "å" @@ "Æ" :> "æ" @@ "Ç" :> "ç" @@ "È" :> "è" @@ "É" :> "é" @@
    "Ê" :> "ê" @@ "Ë" :> "ë" @@ "Ì" :> "ì" @@ "Í" :> "í" @@ "Î" :> "î" @@ "Ï" :> "ï" @@
    "Ð" :> "ð" @@ "Ñ" :> "ñ" @@ "Ò" :> "ò" @@ "Ó" :> "ó" @@ "Ô" :> "ô" @@ "Õ" :> "õ" @@
    "Ö" :> "ö" @@ "Ø" :> "ø" @@ "Ù" :> "ù" @@ "Ú" :> "ú" @@ "Û" :> "û" @@ "Ü" :> "ü" @@
    "Ý" :> "ý" @@ "Þ" :> "þ"

UpperCase == DOMAIN LowerOf

LowerChar(c) == IF c \in UpperCase THEN LowerOf[c] ELSE c

Lower(t) == ToTuple([i \in 1..Len(t) |-> LowerChar(t[i])])

\* The characters the regular expression class \w matches in a str pattern:
\* the alphanumeric characters and the underscore.
WordChars ==
    {"0", "1", "2", "3", "4", "5", "6", "7", "8", "9", "A", "B", "C", "D",
     "E", "F", "G", "H", "I", "J", "K", "L", "M", "N", "O", "P", "Q", "R",
     "S", "T", "U", "V", "W", "X", "Y", "Z", "_", "a", "b", "c", "d", "e",
     "f", "g", "h", "i", "j", "k", "l", "m", "n", "o", "p", "q", "r", "s",
     "t", "u", "v", "w", "x", "y", "z", "ª", "²", "³", "µ", "¹", "º", "¼",
     "½", "¾", "À", "Á", "Â", "Ã", "Ä", "Å", "Æ", "Ç", "È", "É", "Ê", "Ë",
     "Ì", "Í", "Î", "Ï", "Ð", "Ñ", "Ò", "Ó", "Ô", "Õ", "Ö", "Ø", "Ù", "Ú",
     "Û", "Ü", "Ý", "Þ", "ß", "à", "á", "â", "ã", "ä", "å", "æ", "ç", "è",
     "é", "ê", "ë", "ì", "í", "î", "ï", "ð", "ñ", "ò", "ó", "ô", "õ", "ö",
     "ø", "ù", "ú", "û", "ü", "ý", "þ", "ÿ"}

\* The characters of str.isspace(): what str.split() and str.strip() take
\* for whitespace and what the class \s matches.
SpaceChars ==
    {"\t", "\n", "", "\f", "\r", "", "", "", "", " ", "", " "}

IsSpace(c) == c \in SpaceChars

\* " ".join(parts)
RECURSIVE JoinSpace(_)
JoinSpace(parts) ==
    IF parts = <<>> THEN <<>>
    ELSE IF Len(parts) = 1 THEN parts[1]
    ELSE parts[1] \o <<" ">> \o JoinSpace(Tail(parts))

\* item.get("text", "")
ItemText(item) == IF item.has_text THEN item.text ELSE <<>>

\* " ".join([item.get("text", "") for item in text_content])
FullText(items) == JoinSpace([i \in 1..Len(items) |-> ItemText(items[i])])

\* The keyword k occurs in t at position i.
MatchAt(t, k, i) ==
    /\ i + Len(k) - 1 <= Len(t)
    /\ \A j \in 1..Len(k) : t[i + j - 1] = k[j]

\* The positions at which k occurs in t.
Occurrences(t, k) == {i \in 1..Len(t) : MatchAt(t, k, i)}

SetMin(S) == CHOOSE m \in S : \A x \in S : m <= x

\* str.count(keyword): find the next occurrence at or after `from`, count
\* it, and go on behind its last character (occurrences do not overlap).
RECURSIVE CountFrom(_, _, _)
CountFrom(occ, klen, from) ==
    LET rest == {i \in occ : i >= from}
    IN  IF rest = {} THEN 0
        ELSE 1 + CountFrom(occ, klen, SetMin(rest) + klen)

StrCount(t, k) == CountFrom(Occurrences(t, k), Len(k), 1)

RECURSIVE SumSeq(_)
SumSeq(ns) == IF ns = <<>> THEN 0 ELSE Head(ns) + SumSeq(Tail(ns))

\* sum(full_text_lower.count(keyword.lower()) for keyword in keywords),
\* given full_text_lower.
PersonaScoreWholeWords(full_text_lower, keywords) ==
    SumSeq([j \in 1..Len(keywords) |->
        Cardinality({i \in Occurrences(full_text_lower, keywords[j]) :
            /\ (i = 1 \/ IsSpace(full_text_lower[i - 1]))
            /\ (i + Len(keywords[j]) - 1 = Len(full_text_lower)
                \/ IsSpace(full_text_lower[i + Len(keywords[j])]))})])

PersonaScore(full_text_lower, keywords) ==
    SumSeq([j \in 1..Len(keywords) |-> StrCount(full_text_lower, Lower(keywords[j]))])

\* persona_scores, in the insertion order of the dict.
PersonaScores(full_text_lower) ==
    ToTuple([i \in 1..Len(PersonaOrder) |->
                PersonaScore(full_text_lower, PersonaKeywords[i])])

\* max(persona_scores, key=persona_scores.get): the scan keeps the first key
\* in insertion order that reaches the maximum.
RECURSIVE ArgMaxFrom(_, _, _)
ArgMaxFrom(scores, i, best) ==
    IF i > Len(scores) THEN best
    ELSE IF scores[i] > scores[best] THEN ArgMaxFrom(scores, i + 1, i)
    ELSE ArgMaxFrom(scores, i + 1, best)

RECURSIVE ArgMaxLastFrom(_, _, _)
ArgMaxLastFrom(scores, i, best) ==
    IF i > Len(scores) THEN best
    ELSE IF scores[i] >= scores[best] THEN ArgMaxLastFrom(scores, i + 1, i)
    ELSE ArgMaxLastFrom(scores, i + 1, best)

ArgMaxLast(scores) == ArgMaxLastFrom(scores, 2, 1)

ArgMax(scores) == ArgMaxFrom(scores, 2, 1)

\* if persona_scores[best_persona] > 0: return best_persona; return "general"
BestOrGeneral(scores, best) ==
    IF scores[best] > 0 THEN PersonaOrder[best] ELSE "general"

BestPersona(persona_scores) ==
    Bind(ArgMax(persona_scores), LAMBDA best : BestOrGeneral(persona_scores, best))

DetectFromText(full_text_lower) ==
    Bind(PersonaScores(full_text_lower), BestPersona)

\* detect_persona
DetectPersona(items) ==
    IF items = <<>> THEN "general"
    ELSE Bind(Lower(FullText(items)), DetectFromText)

\* len(re.findall(rf'\b{keyword}\b', text.lower()))
WholeWordCount(t, k) ==
    Cardinality({i \in 1..Len(t) :
        /\ MatchAt(t, k, i)
        /\ (i = 1 \/ t[i - 1] \notin WordChars)
        /\ (i + Len(k) - 1 = Len(t) \/ t[i + Len(k)] \notin WordChars)})

\* len(text.split())
WordCount(t) ==
    Cardinality({i \in 1..Len(t) : ~IsSpace(t[i]) /\ (i = 1 \/ IsSpace(t[i - 1]))})

(***************************************************************************)
(* Floating point.  A Python float is an IEEE 754 binary64 number; the     *)
(* integers of TLC are 32 bits wide, so the 53 bits of a positive float    *)
(* are kept as a sequence, most significant bit (a 1) first: the float     *)
(* [bits |-> b, exp |-> e] is the binary number 0.b[1]b[2]...b[53] times   *)
(* 2^e.  Every operation rounds its exact result to the nearest float,     *)
(* ties to the even one.                                                   *)
(***************************************************************************)
MantissaBits == 53

FloatZero == [bits |-> <<>>, exp |-> 0]

\* The n binary digits of the natural number v < 2^n.
BitsOfWidth(v, n) == ToTuple([i \in 1..n |-> (v \div 2^(n - i)) % 2])

\* The binary digits of the natural number n < 2^30, without leading zeros.
BitsOf(n) ==
    BitsOfWidth(n, CHOOSE w \in 0..30 : n < 2^w /\ (w = 0 \/ n >= 2^(w - 1)))

\* The natural number with these binary digits.
RECURSIVE ValueOf(_)
ValueOf(bits) ==
    IF bits = <<>> THEN 0
    ELSE 2 * ValueOf(SubSeq(bits, 1, Len(bits) - 1)) + bits[Len(bits)]

Zeros(n) == ToTuple([i \in 1..n |-> 0])

\* bits without its leading zeros.
Significant(bits) ==
    IF \A i \in 1..Len(bits) : bits[i] = 0 THEN <<>>
    ELSE SubSeq(bits, SetMin({i \in 1..Len(bits) : bits[i] = 1}), Len(bits))

\* bits + 1, one digit longer when every digit is a 1.
Increment(bits) ==
    LET zeros == {i \in 1..Len(bits) : bits[i] = 0}
    IN  IF zeros = {} THEN <<1>> \o Zeros(Len(bits))
        ELSE LET last == CHOOSE i \in zeros : \A j \in zeros : j <= i
             IN  SubSeq(bits, 1, last - 1) \o <<1>> \o Zeros(Len(bits) - last)

\* The float of the first 53 digits, one added when up holds.
RoundedFloat(bits, exp, up) ==
    IF ~up THEN [bits |-> bits, exp |-> exp]
    ELSE LET more == Increment(bits)
         IN  IF Len(more) > MantissaBits
             THEN [bits |-> SubSeq(more, 1, MantissaBits), exp |-> exp + 1]
             ELSE [bits |-> more, exp |-> exp]

\* The float nearest to 0.bits times 2^exp, bits starting with a 1.
RoundToFloat(bits, exp) ==
    IF Len(bits) <= MantissaBits
    THEN [bits |-> bits \o Zeros(MantissaBits - Len(bits)), exp |-> exp]
    ELSE RoundedFloat(SubSeq(bits, 1, MantissaBits), exp,
            /\ bits[MantissaBits + 1] = 1
            /\ \/ bits[MantissaBits] = 1
               \/ \E i \in (MantissaBits + 2)..Len(bits) : bits[i] = 1)

\* The zeros that follow the binary point of rem / den (0 < rem < den < 2^24).
LeadingZeros(rem, den) ==
    CHOOSE z \in 0..24 : rem * 2^z < den /\ rem * 2^(z + 1) >= den

\* The next n binary digits of rem / den (rem < den < 2^24) and the
\* remainder left behind them, worked out 6 digits at a time.
RECURSIVE FractionBits(_, _, _)
FractionBits(rem, den, n) ==
    IF n = 0 THEN [bits |-> <<>>, rem |-> rem]
    ELSE LET g == Min(n, 6)
             rest == FractionBits((rem * 2^g) % den, den, n - g)
         IN  [bits |-> BitsOfWidth((rem * 2^g) \div den, g) \o rest.bits,
              rem |-> rest.rem]

\* num / den of two integers, 0 <= num < 2^30 and 0 < den < 2^24: the float
\* nearest to the quotient.
FloatDiv(num, den) ==
    IF num = 0 THEN FloatZero
    ELSE LET whole == BitsOf(num \div den)
             zeros == IF whole = <<>> THEN LeadingZeros(num % den, den) ELSE 0
             frac == FractionBits((num % den) * 2^zeros, den,
                                  MantissaBits - Len(whole))
         IN  RoundedFloat(whole \o frac.bits,
                          IF whole = <<>> THEN -zeros ELSE Len(whole),
                          \/ 2 * frac.rem > den
                          \/ 2 * frac.rem = den /\ frac.bits[Len(frac.bits)] = 1)

\* The digits of bits times c plus carry with their leading zeros, for a
\* natural number c < 2^20 and bits of a whole number of groups of 6.
RECURSIVE MulGroups(_, _, _)
MulGroups(bits, c, carry) ==
    IF bits = <<>> THEN BitsOfWidth(carry, 30)
    ELSE LET v == ValueOf(SubSeq(bits, Len(bits) - 5, Len(bits))) * c
                      + carry
         IN  MulGroups(SubSeq(bits, 1, Len(bits) - 6), c, v \div 2^6)
                 \o BitsOfWidth(v % 2^6, 6)

\* bits times c.
MulBits(bits, c) ==
    Significant(MulGroups(Zeros((6 - (Len(bits) % 6)) % 6)
                              \o bits, c, 0))

\* x * c for a float x and a positive integer c < 2^20.
FloatMul(x, c) ==
    IF x = FloatZero THEN FloatZero
    ELSE LET product == MulBits(x.bits, c)
         IN  RoundToFloat(product, x.exp + Len(product) - MantissaBits)

\* x >= n for a float x and a positive integer n.
FloatAtLeast(x, n) ==
    /\ x # FloatZero
    /\ \/ x.exp > Len(BitsOf(n))
       \/ /\ x.exp = Len(BitsOf(n))
          /\ ValueOf(SubSeq(x.bits, 1, x.exp)) >= n

\* round(x, 2) of a float x below 2^20, in hundredths: the exact value of
\* x times 100 rounded to an integer, halves to the even one.
RoundHundredths(x) ==
    IF x = FloatZero THEN 0
    ELSE LET scaled == MulBits(x.bits, 100)
             whole == Len(scaled) - (MantissaBits - x.exp)
             q == IF whole <= 0 THEN 0 ELSE ValueOf(SubSeq(scaled, 1, whole))
             half == whole >= 0 /\ scaled[whole + 1] = 1
             more == \E i \in 1..Len(scaled) : i > whole + 1 /\ scaled[i] = 1
         IN  IF half /\ (more \/ q % 2 = 1) THEN q + 1 ELSE q

NoPersonaAnalysis == [reported |-> FALSE, keyword_total |-> 0, relevance_score |-> 0]

\* sum(keyword_matches.values()), given text.lower()
TotalKeywords(text_lower, keywords) ==
    SumSeq([j \in 1..Len(keywords) |-> WholeWordCount(text_lower, keywords[j])])

\* min(100, (total_keywords / words) * 10000) rounded to 2 places, in
\* hundredths.  A word count of 0 raises ZeroDivisionError, which
\* _analyze_for_persona catches to return {}.
RelevanceOf(total_keywords, words) ==
    IF words = 0 THEN NoPersonaAnalysis
    ELSE [reported |-> TRUE,
          keyword_total |-> total_keywords,
          relevance_score |->
              Bind(FloatMul(FloatDiv(total_keywords, words), 10000),
                   LAMBDA relevance_score :
                      IF FloatAtLeast(relevance_score, 100) THEN 10000
                      ELSE RoundHundredths(relevance_score))]

\* _analyze_for_persona
AnalyzeForPersona(t, p) ==
    Bind(t, LAMBDA text :
        Bind(TotalKeywords(Lower(text), IF IsPersona(p) THEN KeywordsOf(p) ELSE <<>>),
             LAMBDA total_keywords : RelevanceOf(total_keywords, WordCount(text))))

\* analyze_content: the persona it settles on, the word count and the
\* persona-specific part of the analysis.
AnalyzeWith(items, chosen) ==
    [persona_type |-> chosen,
     word_count |-> WordCount(FullText(items)),
     persona |-> IF IsPersona(chosen)
                 THEN AnalyzeForPersona(FullText(items), chosen)
                 ELSE NoPersonaAnalysis,
     error |-> FALSE]

\* {"persona_analysis": "No content to analyze"}
NoContentAnalysis ==
    [persona_type |-> Absent, word_count |-> 0, persona |-> NoPersonaAnalysis,
     error |-> FALSE]

\* {"error": str(e)}, the value of the handler of lines 105-107.
AnalysisError ==
    [persona_type |-> Absent, word_count |-> 0, persona |-> NoPersonaAnalysis,
     error |-> TRUE]

\* A persona_type that cannot be a key of a dict (a list, a dict): the
\* lookup `persona_type in self.personas` of line 99 raises TypeError.
Unhashable == "<unhashable>"

AnalyzeContent(items, p) ==
    IF items = <<>> THEN NoContentAnalysis
    ELSE IF p = Unhashable THEN AnalysisError
    ELSE Bind(IF p = "auto" THEN DetectPersona(items) ELSE p,
              LAMBDA chosen : AnalyzeWith(items, chosen))

(***************************************************************************)
(* Inputs of the persona engine.                                           *)
(***************************************************************************)
TextEmpty == <<>>
TextStudyData == <<"S", "t", "u", "d", "y", " ", "d", "a", "t", "a">>
TextMarketAnalysis == <<"m", "a", "r", "k", "e", "t", " ", "a", "n", "a", "l", "y", "s", "i", "s">>
TextLawfulTravel == <<"l", "a", "w", "f", "u", "l", " ", "t", "r", "a", "v", "e", "l">>
TextLegalegal == <<"l", "e", "g", "a", "l", "e", "g", "a", "l">>
TextHello == <<"h", "e", "l", "l", "o", " ", "w", "o", "r", "l", "d">>
\* "Data\réDATA": two words parted by a carriage return, the second one
\* holding the keyword behind a letter outside ASCII.
TextAccented == <<"D", "a", "t", "a", "\r", "é", "D", "A", "T", "A">>

FillerWords == 127

\* "data x x x ... x": one keyword followed by FillerWords one-letter words.
TextLong == <<"d", "a", "t", "a">> \o [i \in 1..(2 * FillerWords) |-> IF i % 2 = 1 THEN " " ELSE "x"]

Items ==
    {[has_text |-> TRUE, text |-> t] :
        t \in {TextEmpty, TextStudyData, TextMarketAnalysis, TextLawfulTravel,
               TextLegalegal, TextHello, TextAccented, TextLong}}
    \cup {[has_text |-> FALSE, text |-> <<>>]}

PersonaArgs ==
    {"auto", "general", "researcher", "student", "business_analyst",
     "technical_writer", "legal_professional", "medical_professional",
     "travel_planner"}

PdfIdle ==
    /\ pc = "idle"
    /\ file = [state |-> "ok", size |-> FileSize, name |-> "doc.pdf"]
    /\ env = [fitz |-> NotCalled, pypdf2 |-> NotCalled,
              pdfplumber |-> NotCalled, basic |-> NotCalled]
    /\ attempted = <<>>
    /\ result = NoResult
    /\ propagated = FALSE

InitPersona ==
    /\ PdfIdle
    /\ FormatterIdle
    /\ ServerIdle
    /\ ppc = "start"
    /\ text_content \in SeqsUpTo(Items, MaxItems)
    /\ persona_type = "auto"
    /\ detected = Absent
    /\ analysis = NoContentAnalysis

\* A call detect_persona(text_content).
CallDetectPersona ==
    /\ ppc = "start"
    /\ detected' = DetectPersona(text_content)
    /\ ppc' = "detected"
    /\ UNCHANGED <<text_content, persona_type, analysis>>
    /\ UNCHANGED pdfVars
    /\ UNCHANGED formatterVars
    /\ UNCHANGED serverVars

\* A call analyze_content(text_content, p).
CallAnalyzeContent ==
    /\ ppc = "detected"
    /\ \E p \in PersonaArgs :
        /\ persona_type' = p
        /\ analysis' = AnalyzeContent(text_content, p)
    /\ ppc' = "analyzed"
    /\ UNCHANGED <<text_content, detected>>
    /\ UNCHANGED pdfVars
    /\ UNCHANGED formatterVars
    /\ UNCHANGED serverVars

NextPersona == CallDetectPersona \/ CallAnalyzeContent

SpecPersona == InitPersona /\ [][NextPersona]_vars

(***************************************************************************)
(* Properties of the persona engine.                                       *)
(***************************************************************************)
\* k occurs in t at position i, letter case ignored.
OccursIgnoringCase(t, k, i) ==
    /\ i + Len(k) - 1 <= Len(t)
    /\ \A j \in 1..Len(k) : LowerChar(t[i + j - 1]) = LowerChar(k[j])

\* The number of occurrences of k in t, letter case ignored: the size of a
\* largest set of occurrences no two of which overlap.
OccurrenceCount(t, k) ==
    LET occ == {i \in 1..Len(t) : OccursIgnoringCase(t, k, i)}
        apart(Q) == \A a \in Q : \A b \in Q : a = b \/ a - b >= Len(k) \/ b - a >= Len(k)
    IN  CHOOSE n \in 0..Cardinality(occ) :
            /\ \E Q \in SUBSET occ : apart(Q) /\ Cardinality(Q) = n
            /\ \A Q \in SUBSET occ : apart(Q) => Cardinality(Q) <= n

KeywordScores(t) ==
    ToTuple([p \in 1..Len(PersonaOrder) |->
        SumSeq([j \in 1..Len(PersonaKeywords[p]) |->
                   OccurrenceCount(t, PersonaKeywords[p][j])])])

\* The persona with the maximum score, the first of the table on a tie;
\* "general" when every score is zero.
FirstMaximum(sc) ==
    IF \A p \in 1..Len(sc) : sc[p] = 0 THEN "general"
    ELSE PersonaOrder[CHOOSE p \in 1..Len(sc) :
            /\ \A q \in 1..Len(sc) : sc[q] <= sc[p]
            /\ \A q \in 1..(p - 1) : sc[q] < sc[p]]

ExpectedPersona(items) ==
    IF items = <<>> THEN "general"
    ELSE Bind(Bind(FullText(items), KeywordScores), FirstMaximum)

\* C9: detect_persona returns the persona whose keywords occur most often in
\* the concatenated text (substring occurrences, letter case ignored, summed
\* over the persona's keyword list); on a tie the persona enumerated first in
\* the table; "general" when every score is zero or the input is empty.
C9_DetectPersona ==
    ppc # "start" => detected = ExpectedPersona(text_content)

\* A tie for the maximum: "lawful travel" scores 1 for legal_professional
\* ("law") and 1 for travel_planner ("travel").
C9_Witness ==
    /\ ppc # "start"
    /\ text_content = <<[has_text |-> TRUE, text |-> TextLawfulTravel]>>
    /\ KeywordScores(FullText(text_content))[5] = 1
    /\ KeywordScores(FullText(text_content))[7] = 1
    /\ detected = "legal_professional"

\* C10: for every input to the persona analysis, texts with zero words
\* included, a relevance score is reported and lies between 0 and 100 (the
\* model keeps the score in hundredths: between 0 and 10000).
C10_RelevanceScoreBound ==
    (/\ ppc = "analyzed"
     /\ text_content # <<>>
     /\ IsPersona(analysis.persona_type))
    => /\ analysis.persona.reported
       /\ analysis.persona.relevance_score >= 0
       /\ analysis.persona.relevance_score <= 10000

(***************************************************************************)
(* The output formatter (src/src/output_formatter.py): string operations.  *)
(***************************************************************************)
\* str.strip()
StrStrip(t) ==
    IF \A i \in 1..Len(t) : IsSpace(t[i]) THEN <<>>
    ELSE SubSeq(t,
                CHOOSE i \in 1..Len(t) :
                    ~IsSpace(t[i]) /\ \A j \in 1..(i - 1) : IsSpace(t[j]),
                CHOOSE i \in 1..Len(t) :
                    ~IsSpace(t[i]) /\ \A j \in (i + 1)..Len(t) : IsSpace(t[j]))

\* k in t
Contains(t, k) == \E i \in 1..(Len(t) - Len(k) + 1) : MatchAt(t, k, i)

\* any(k in t for k in ks)
ContainsAny(t, ks) == \E k \in ks : Contains(t, k)

\* The members of a set of positions in increasing order.
RECURSIVE Ascending(_)
Ascending(S) ==
    IF S = {} THEN <<>>
    ELSE LET m == CHOOSE x \in S : \A y \in S : x <= y
         IN  <<m>> \o Ascending(S \ {m})

\* str.split(): the maximal runs of characters that are not whitespace.
SplitWords(t) ==
    LET starts == Ascending({i \in 1..Len(t) :
                      ~IsSpace(t[i]) /\ (i = 1 \/ IsSpace(t[i - 1]))})
        end(i) == CHOOSE j \in i..Len(t) :
                      /\ \A m \in i..j : ~IsSpace(t[m])
                      /\ (j = Len(t) \/ IsSpace(t[j + 1]))
    IN  ToTuple([n \in 1..Len(starts) |-> SubSeq(t, starts[n], end(starts[n]))])

\* str.split(c) for a one-character separator c.
SplitOn(t, c) ==
    LET cuts == Ascending({i \in 1..Len(t) : t[i] = c})
    IN  ToTuple([n \in 1..(Len(cuts) + 1) |->
            SubSeq(t,
                   IF n = 1 THEN 1 ELSE cuts[n - 1] + 1,
                   IF n = Len(cuts) + 1 THEN Len(t) ELSE cuts[n] - 1)])

(***************************************************************************)
(* _enhance_section_title                                                  *)
(***************************************************************************)
MaxEnhancedTitleLen == 30
TitleWordsKept == 3

GenericWords ==
    {<<"i", "n", "t", "r", "o", "d", "u", "c", "t", "i", "o", "n">>, <<"o", "v", "e", "r", "v", "i", "e", "w">>, <<"g", "u", "i", "d", "e">>, <<"m", "a", "n", "u", "a", "l">>, <<"s", "e", "c", "t", "i", "o", "n">>,
     <<"c", "h", "a", "p", "t", "e", "r">>, <<"p", "a", "g", "e">>, <<"w", "e", "l", "c", "o", "m", "e">>}

ActionWords ==
    {<<"c", "r", "e", "a", "t", "e">>, <<"c", "o", "n", "v", "e", "r", "t">>, <<"e", "x", "p", "o", "r", "t">>, <<"e", "d", "i", "t">>, <<"f", "i", "l", "l">>, <<"s", "i", "g", "n">>, <<"s", "h", "a", "r", "e">>,
     <<"r", "e", "q", "u", "e", "s", "t">>, <<"g", "e", "n", "e", "r", "a", "t", "e">>}

\* The domain buckets in the order of the if/elif chain: the words looked
\* for in the document name, and the ordered rules (words looked for in the
\* title, label returned).
TitleBuckets ==
    << [name |-> "technical",
        doc |-> {<<"a", "c", "r", "o", "b", "a", "t">>, <<"p", "d", "f">>, <<"t", "e", "c", "h", "n", "i", "c", "a", "l">>, <<"l", "e", "a", "r", "n">>},
        rules |-> <<
          [any |-> {<<"f", "i", "l", "l", " ", "a", "n", "d", " ", "s", "i", "g", "n">>}, label |-> <<"F", "i", "l", "l", " ", "a", "n", "d", " ", "s", "i", "g", "n", " ", "P", "D", "F", " ", "f", "o", "r", "m", "s">>],
          [any |-> {<<"e", "-", "s", "i", "g", "n", "a", "t", "u", "r", "e">>, <<"s", "i", "g", "n", "a", "t", "u", "r", "e">>}, label |-> <<"S", "e", "n", "d", " ", "d", "o", "c", "u", "m", "e", "n", "t", " ", "f", "o", "r", " ", "s", "i", "g", "n", "a", "t", "u", "r", "e", "s">>],
          [any |-> {<<"e", "x", "p", "o", "r", "t">>}, label |-> <<"E", "x", "p", "o", "r", "t", " ", "P", "D", "F", " ", "c", "o", "n", "t", "e", "n", "t">>],
          [any |-> {<<"e", "d", "i", "t">>}, label |-> <<"E", "d", "i", "t", " ", "P", "D", "F", " ", "c", "o", "n", "t", "e", "n", "t">>],
          [any |-> {<<"s", "h", "a", "r", "e">>}, label |-> <<"S", "h", "a", "r", "e", " ", "P", "D", "F", " ", "d", "o", "c", "u", "m", "e", "n", "t", "s">>],
          [any |-> {<<"c", "r", "e", "a", "t", "e">>, <<"c", "o", "n", "v", "e", "r", "t">>}, label |-> <<"C", "r", "e", "a", "t", "e", " ", "a", "n", "d", " ", "c", "o", "n", "v", "e", "r", "t", " ", "P", "D", "F", "s">>],
          [any |-> {<<"g", "e", "n", "e", "r", "a", "t", "i", "v", "e", " ", "a", "i">>}, label |-> <<"U", "s", "e", " ", "g", "e", "n", "e", "r", "a", "t", "i", "v", "e", " ", "A", "I", " ", "f", "e", "a", "t", "u", "r", "e", "s">>],
          [any |-> {<<"f", "o", "r", "m">>}, label |-> <<"C", "h", "a", "n", "g", "e", " ", "f", "l", "a", "t", " ", "f", "o", "r", "m", "s", " ", "t", "o", " ", "f", "i", "l", "l", "a", "b", "l", "e">>],
          [any |-> {<<"m", "u", "l", "t", "i", "p", "l", "e">>}, label |-> <<"C", "r", "e", "a", "t", "e", " ", "m", "u", "l", "t", "i", "p", "l", "e", " ", "P", "D", "F", "s">>],
          [any |-> {<<"c", "l", "i", "p", "b", "o", "a", "r", "d">>}, label |-> <<"C", "o", "n", "v", "e", "r", "t", " ", "c", "l", "i", "p", "b", "o", "a", "r", "d", " ", "c", "o", "n", "t", "e", "n", "t">>] >>],
       [name |-> "travel",
        doc |-> {<<"t", "r", "a", "v", "e", "l">>, <<"t", "o", "u", "r", "i", "s", "m">>, <<"d", "e", "s", "t", "i", "n", "a", "t", "i", "o", "n">>, <<"v", "a", "c", "a", "t", "i", "o", "n">>},
        rules |-> <<
          [any |-> {<<"a", "c", "t", "i", "v", "i", "t", "i", "e", "s">>, <<"t", "h", "i", "n", "g", "s">>, <<"a", "t", "t", "r", "a", "c", "t", "i", "o", "n", "s">>}, label |-> <<"A", "c", "t", "i", "v", "i", "t", "i", "e", "s">>],
          [any |-> {<<"t", "i", "p", "s">>, <<"a", "d", "v", "i", "c", "e">>, <<"p", "l", "a", "n", "n", "i", "n", "g">>}, label |-> <<"T", "r", "a", "v", "e", "l", " ", "t", "i", "p", "s">>],
          [any |-> {<<"c", "u", "i", "s", "i", "n", "e">>, <<"f", "o", "o", "d">>, <<"d", "i", "n", "i", "n", "g">>}, label |-> <<"C", "u", "i", "s", "i", "n", "e">>],
          [any |-> {<<"c", "u", "l", "t", "u", "r", "e">>, <<"t", "r", "a", "d", "i", "t", "i", "o", "n">>, <<"h", "e", "r", "i", "t", "a", "g", "e">>}, label |-> <<"C", "u", "l", "t", "u", "r", "e">>],
          [any |-> {<<"c", "i", "t", "y">>, <<"c", "i", "t", "i", "e", "s">>, <<"u", "r", "b", "a", "n">>}, label |-> <<"C", "i", "t", "i", "e", "s">>],
          [any |-> {<<"c", "o", "a", "s", "t", "a", "l">>, <<"b", "e", "a", "c", "h">>, <<"s", "e", "a">>}, label |-> <<"C", "o", "a", "s", "t", "a", "l", " ", "a", "c", "t", "i", "v", "i", "t", "i", "e", "s">>],
          [any |-> {<<"n", "i", "g", "h", "t", "l", "i", "f", "e">>, <<"e", "n", "t", "e", "r", "t", "a", "i", "n", "m", "e", "n", "t">>}, label |-> <<"N", "i", "g", "h", "t", "l", "i", "f", "e">>],
          [any |-> {<<"h", "i", "s", "t", "o", "r", "y">>, <<"h", "i", "s", "t", "o", "r", "i", "c", "a", "l">>}, label |-> <<"H", "i", "s", "t", "o", "r", "y">>] >>],
       [name |-> "business",
        doc |-> {<<"b", "u", "s", "i", "n", "e", "s", "s">>, <<"c", "o", "r", "p", "o", "r", "a", "t", "e">>, <<"f", "i", "n", "a", "n", "c", "i", "a", "l">>, <<"r", "e", "p", "o", "r", "t">>},
        rules |-> <<
          [any |-> {<<"a", "n", "a", "l", "y", "s", "i", "s">>, <<"o", "v", "e", "r", "v", "i", "e", "w">>, <<"s", "u", "m", "m", "a", "r", "y">>}, label |-> <<"A", "n", "a", "l", "y", "s", "i", "s">>],
          [any |-> {<<"s", "t", "r", "a", "t", "e", "g", "y">>, <<"p", "l", "a", "n", "n", "i", "n", "g">>, <<"m", "a", "n", "a", "g", "e", "m", "e", "n", "t">>}, label |-> <<"S", "t", "r", "a", "t", "e", "g", "y">>],
          [any |-> {<<"f", "i", "n", "a", "n", "c", "i", "a", "l">>, <<"f", "i", "n", "a", "n", "c", "e">>, <<"b", "u", "d", "g", "e", "t">>}, label |-> <<"F", "i", "n", "a", "n", "c", "i", "a", "l">>],
          [any |-> {<<"m", "a", "r", "k", "e", "t">>, <<"m", "a", "r", "k", "e", "t", "i", "n", "g">>, <<"s", "a", "l", "e", "s">>}, label |-> <<"M", "a", "r", "k", "e", "t", "i", "n", "g">>] >>],
       [name |-> "academic",
        doc |-> {<<"r", "e", "s", "e", "a", "r", "c", "h">>, <<"s", "t", "u", "d", "y">>, <<"a", "c", "a", "d", "e", "m", "i", "c">>, <<"t", "h", "e", "s", "i", "s">>, <<"p", "a", "p", "e", "r">>},
        rules |-> <<
          [any |-> {<<"m", "e", "t", "h", "o", "d", "o", "l", "o", "g", "y">>, <<"m", "e", "t", "h", "o", "d", "s">>}, label |-> <<"M", "e", "t", "h", "o", "d", "o", "l", "o", "g", "y">>],
          [any |-> {<<"r", "e", "s", "u", "l", "t", "s">>, <<"f", "i", "n", "d", "i", "n", "g", "s">>, <<"a", "n", "a", "l", "y", "s", "i", "s">>}, label |-> <<"R", "e", "s", "u", "l", "t", "s">>],
          [any |-> {<<"l", "i", "t", "e", "r", "a", "t", "u", "r", "e">>, <<"r", "e", "v", "i", "e", "w">>, <<"b", "a", "c", "k", "g", "r", "o", "u", "n", "d">>}, label |-> <<"L", "i", "t", "e", "r", "a", "t", "u", "r", "e", " ", "r", "e", "v", "i", "e", "w">>],
          [any |-> {<<"c", "o", "n", "c", "l", "u", "s", "i", "o", "n">>, <<"d", "i", "s", "c", "u", "s", "s", "i", "o", "n">>}, label |-> <<"D", "i", "s", "c", "u", "s", "s", "i", "o", "n">>] >>],
       [name |-> "legal",
        doc |-> {<<"l", "e", "g", "a", "l">>, <<"l", "a", "w">>, <<"c", "o", "n", "t", "r", "a", "c", "t">>, <<"a", "g", "r", "e", "e", "m", "e", "n", "t">>},
        rules |-> <<
          [any |-> {<<"t", "e", "r", "m", "s">>, <<"c", "o", "n", "d", "i", "t", "i", "o", "n", "s">>, <<"c", "l", "a", "u", "s", "e", "s">>}, label |-> <<"T", "e", "r", "m", "s">>],
          [any |-> {<<"r", "i", "g", "h", "t", "s">>, <<"o", "b", "l", "i", "g", "a", "t", "i", "o", "n", "s">>, <<"l", "i", "a", "b", "i", "l", "i", "t", "y">>}, label |-> <<"R", "i", "g", "h", "t", "s">>],
          [any |-> {<<"c", "o", "m", "p", "l", "i", "a", "n", "c", "e">>, <<"r", "e", "g", "u", "l", "a", "t", "o", "r", "y">>}, label |-> <<"C", "o", "m", "p", "l", "i", "a", "n", "c", "e">>] >>],
       [name |-> "medical",
        doc |-> {<<"m", "e", "d", "i", "c", "a", "l">>, <<"h", "e", "a", "l", "t", "h">>, <<"c", "l", "i", "n", "i", "c", "a", "l">>, <<"p", "a", "t", "i", "e", "n", "t">>},
        rules |-> <<
          [any |-> {<<"d", "i", "a", "g", "n", "o", "s", "i", "s">>, <<"a", "s", "s", "e", "s", "s", "m", "e", "n", "t">>, <<"e", "v", "a", "l", "u", "a", "t", "i", "o", "n">>}, label |-> <<"D", "i", "a", "g", "n", "o", "s", "i", "s">>],
          [any |-> {<<"t", "r", "e", "a", "t", "m", "e", "n", "t">>, <<"t", "h", "e", "r", "a", "p", "y">>, <<"i", "n", "t", "e", "r", "v", "e", "n", "t", "i", "o", "n">>}, label |-> <<"T", "r", "e", "a", "t", "m", "e", "n", "t">>],
          [any |-> {<<"s", "y", "m", "p", "t", "o", "m", "s">>, <<"s", "i", "g", "n", "s">>, <<"m", "a", "n", "i", "f", "e", "s", "t", "a", "t", "i", "o", "n">>}, label |-> <<"S", "y", "m", "p", "t", "o", "m", "s">>],
          [any |-> {<<"m", "e", "d", "i", "c", "a", "t", "i", "o", "n">>, <<"d", "r", "u", "g">>, <<"p", "r", "e", "s", "c", "r", "i", "p", "t", "i", "o", "n">>}, label |-> <<"M", "e", "d", "i", "c", "a", "t", "i", "o", "n">>] >>] >>

\* The first test of an if/elif chain that succeeds, 0 when none does.
FirstIndex(n, Test(_)) ==
    IF \E i \in 1..n : Test(i)
    THEN CHOOSE i \in 1..n : Test(i) /\ \A j \in 1..(i - 1) : ~Test(j)
    ELSE 0

\* A chain of independent if statements: the last bucket whose test succeeds
\* has the last word.
TitleBucketOfLastMatch(doc_lower) ==
    LET hit(b) == ContainsAny(doc_lower, TitleBuckets[b].doc)
    IN  IF \E b \in 1..Len(TitleBuckets) : hit(b)
        THEN CHOOSE b \in 1..Len(TitleBuckets) :
                hit(b) /\ \A c \in (b + 1)..Len(TitleBuckets) : ~hit(c)
        ELSE 0

\* The bucket the document name selects: only the first bucket whose test
\* succeeds is entered.
TitleBucketOf(doc_lower) ==
    FirstIndex(Len(TitleBuckets),
               LAMBDA b : ContainsAny(doc_lower, TitleBuckets[b].doc))

\* The title is already concise: it is returned as it is.
IsConcise(title) ==
    /\ Len(title) <= MaxEnhancedTitleLen
    /\ ~ContainsAny(Lower(title), GenericWords)

\* The action rule of the technical bucket: the first word holding an action
\* verb and the word after it.
ActionTitle(title) ==
    LET words == SplitWords(title)
        hits == {i \in 1..Len(words) : ContainsAny(Lower(words[i]), ActionWords)}
        first == CHOOSE i \in hits : \A j \in hits : i <= j
    IN  IF ContainsAny(Lower(title), ActionWords) /\ Len(words) >= 2 /\ hits # {}
        THEN [found |-> TRUE,
              value |-> IF first + 1 <= Len(words)
                        THEN words[first] \o <<" ">> \o words[first + 1]
                        ELSE words[first]]
        ELSE [found |-> FALSE, value |-> <<>>]

\* The rules of bucket b tried in order on the title.
BucketLabel(b, title_lower) ==
    LET rules == TitleBuckets[b].rules
        r == FirstIndex(Len(rules), LAMBDA i : ContainsAny(title_lower, rules[i].any))
    IN  IF r = 0 THEN [found |-> FALSE, value |-> <<>>]
        ELSE [found |-> TRUE, value |-> rules[r].label]

\* "Default: extract meaningful part or use first sentence".
DefaultTitle(title) ==
    IF Len(title) > MaxEnhancedTitleLen
    THEN LET first_sentence == StrStrip(SplitOn(title, ".")[1])
         IN  IF Len(first_sentence) <= MaxEnhancedTitleLen
             THEN first_sentence
             ELSE JoinSpace(Take(SplitWords(first_sentence), TitleWordsKept))
    ELSE Take(title, MaxEnhancedTitleLen)

\* The title once it is known not to be concise.
RewriteTitle(doc_lower, title) ==
    LET b == TitleBucketOf(doc_lower)
        action == IF b = 1 THEN ActionTitle(title)
                  ELSE [found |-> FALSE, value |-> <<>>]
        label == IF b = 0 THEN [found |-> FALSE, value |-> <<>>]
                 ELSE BucketLabel(b, Lower(title))
    IN  IF action.found THEN action.value
        ELSE IF label.found THEN label.value
        ELSE DefaultTitle(title)

\* Python's None and the number 7 where the caller is expected to pass a
\* string, and the outcome of a call that an exception left.
NoneValue == <<"<None>">>
NumberValue == <<"<7>">>
Raised == <<"<raised>">>

IsStr(v) == v \notin {NoneValue, NumberValue}

\* bool(v) for a string, None or the number 7.
IsTruthy(v) == v \notin {<<>>, NoneValue}

\* The function with original_title.strip() left out.
EnhanceSectionTitleNoStrip(document_name, original_title) ==
    IF ~IsStr(original_title) THEN Raised
    ELSE IF IsConcise(original_title) THEN original_title
    ELSE IF ~IsStr(document_name)
    THEN Take(original_title, MaxEnhancedTitleLen)
    ELSE RewriteTitle(Lower(document_name), original_title)

\* The function whose handler returns the title as it is.
EnhanceSectionTitleKeepsOriginal(document_name, original_title) ==
    IF ~IsStr(original_title) THEN Raised
    ELSE Bind(StrStrip(original_title), LAMBDA title :
            IF IsConcise(title) THEN title
            ELSE IF ~IsStr(document_name)
            THEN original_title
            ELSE RewriteTitle(Lower(document_name), title))

\* document_name.lower() raises for a document name that is no string; the
\* handler of lines 643-645 answers original_title[:30].  For a title that
\* is None or a number original_title.strip() raises and, in the handler,
\* original_title[:30] raises again: the exception leaves the function.
EnhanceSectionTitle(document_name, original_title) ==
    IF ~IsStr(original_title) THEN Raised
    ELSE Bind(StrStrip(original_title), LAMBDA title :
            IF IsConcise(title) THEN title
            ELSE IF ~IsStr(document_name)
            THEN Take(original_title, MaxEnhancedTitleLen)
            ELSE RewriteTitle(Lower(document_name), title))

(***************************************************************************)
(* _refine_text                                                            *)
(***************************************************************************)
MaxRefinedLen == 500
MinRefinedLen == 20

\* The characters the second substitution of _refine_text keeps.
KeptChars ==
    WordChars \cup SpaceChars \cup
    {"-", ".", ",", ";", ":", "!", "?", "(", ")", "'", "\"", "@", "#", "$",
     "%", "&", "*", "+", "=", "<", ">", "[", "]", "{", "}", "|", "\\", "/"}

Ellipsis == <<".", ".", ".">>

\* re.sub(r'\s+', ' ', t): every run of whitespace becomes one blank.
CollapseWhitespace(t) ==
    LET first == SelectSeq(ToTuple([i \in 1..Len(t) |-> i]),
                           LAMBDA i : ~IsSpace(t[i]) \/ i = 1 \/ ~IsSpace(t[i - 1]))
    IN  ToTuple([n \in 1..Len(first) |->
                    IF IsSpace(t[first[n]]) THEN " " ELSE t[first[n]]])

KeepChars(t) == SelectSeq(t, LAMBDA c : c \in KeptChars)

RefineText(text) ==
    IF text = <<>> THEN <<>>
    ELSE Bind(KeepChars(CollapseWhitespace(StrStrip(text))), LAMBDA cleaned :
            Bind(StrStrip(IF Len(cleaned) > MaxRefinedLen
                          THEN Take(cleaned, MaxRefinedLen) \o Ellipsis
                          ELSE cleaned),
                 LAMBDA limited :
                    IF Len(limited) < MinRefinedLen THEN <<>> ELSE limited))

(***************************************************************************)
(* _enhance_analysis_text                                                  *)
(***************************************************************************)
MaxConciseTextLen == 200
MinSentenceLen == 20
MinDefaultSentenceLen == 30
SentencesKept == 2

ConciseTextWords ==
    {<<"c", "r", "e", "a", "t", "e">>, <<"c", "o", "n", "v", "e", "r", "t">>, <<"e", "x", "p", "o", "r", "t">>, <<"e", "d", "i", "t">>, <<"f", "i", "l", "l">>, <<"s", "i", "g", "n">>, <<"s", "h", "a", "r", "e">>,
     <<"r", "e", "q", "u", "e", "s", "t">>, <<"g", "e", "n", "e", "r", "a", "t", "e">>, <<"a", "c", "t", "i", "v", "i", "t", "i", "e", "s">>, <<"t", "i", "p", "s">>, <<"c", "u", "i", "s", "i", "n", "e">>, <<"c", "u", "l", "t", "u", "r", "e">>,
     <<"a", "n", "a", "l", "y", "s", "i", "s">>, <<"m", "e", "t", "h", "o", "d", "o", "l", "o", "g", "y">>, <<"r", "e", "s", "u", "l", "t", "s">>}

SentenceWords ==
    ConciseTextWords \cup
    {<<"f", "o", "r", "m">>, <<"p", "d", "f">>, <<"d", "o", "c", "u", "m", "e", "n", "t">>, <<"t", "o", "o", "l">>, <<"f", "e", "a", "t", "u", "r", "e">>, <<"o", "p", "t", "i", "o", "n">>, <<"s", "e", "l", "e", "c", "t">>,
     <<"c", "h", "o", "o", "s", "e">>}

GenericPrefixes ==
    << <<"T", "h", "i", "s", " ", "d", "o", "c", "u", "m", "e", "n", "t", " ", "c", "o", "n", "t", "a", "i", "n", "s", " ", "v", "a", "l", "u", "a", "b", "l", "e", " ", "i", "n", "f", "o", "r", "m", "a", "t", "i", "o", "n", " ", "a", "n", "d", " ", "i", "n", "s", "i", "g", "h", "t", "s", ".">>,
       <<"T", "h", "i", "s", " ", "d", "o", "c", "u", "m", "e", "n", "t", " ", "p", "r", "o", "v", "i", "d", "e", "s", " ", "c", "o", "m", "p", "r", "e", "h", "e", "n", "s", "i", "v", "e", " ", "c", "o", "v", "e", "r", "a", "g", "e", " ", "o", "f", " ", "t", "h", "e", " ", "t", "o", "p", "i", "c", " ", "w", "i", "t", "h", " ", "d", "e", "t", "a", "i", "l", "e", "d", " ", "a", "n", "a", "l", "y", "s", "i", "s", " ", "a", "n", "d", " ", "p", "r", "a", "c", "t", "i", "c", "a", "l", " ", "i", "n", "f", "o", "r", "m", "a", "t", "i", "o", "n", " ", "f", "o", "r", " ", "r", "e", "a", "d", "e", "r", "s", ".">>,
       <<"I", "t", " ", "p", "r", "o", "v", "i", "d", "e", "s", " ", "c", "o", "m", "p", "r", "e", "h", "e", "n", "s", "i", "v", "e", " ", "c", "o", "v", "e", "r", "a", "g", "e", " ", "o", "f", " ", "t", "h", "e", " ", "t", "o", "p", "i", "c", " ", "w", "i", "t", "h", " ", "d", "e", "t", "a", "i", "l", "e", "d", " ", "a", "n", "a", "l", "y", "s", "i", "s", " ", "a", "n", "d", " ", "p", "r", "a", "c", "t", "i", "c", "a", "l", " ", "i", "n", "f", "o", "r", "m", "a", "t", "i", "o", "n", " ", "f", "o", "r", " ", "r", "e", "a", "d", "e", "r", "s", ".">> >>

\* The domain buckets of _enhance_analysis_text in the order of the if/elif
\* chain; the rule of the business and of the academic bucket has no test.
TextBuckets ==
    << [doc |-> {<<"a", "c", "r", "o", "b", "a", "t">>, <<"p", "d", "f">>, <<"t", "e", "c", "h", "n", "i", "c", "a", "l">>, <<"l", "e", "a", "r", "n">>},
        rules |-> <<
          [any |-> {<<"f", "o", "r", "m">>}, text |-> <<"I", "n", "t", "e", "r", "a", "c", "t", "i", "v", "e", " ", "f", "o", "r", "m", "s", " ", "c", "o", "n", "t", "a", "i", "n", " ", "f", "i", "e", "l", "d", "s", " ", "t", "h", "a", "t", " ", "y", "o", "u", " ", "c", "a", "n", " ", "s", "e", "l", "e", "c", "t", " ", "a", "n", "d", " ", "f", "i", "l", "l", " ", "i", "n", ".", " ", "U", "s", "e", " ", "t", "h", "e", " ", "F", "i", "l", "l", " ", "&", " ", "S", "i", "g", "n", " ", "t", "o", "o", "l", " ", "t", "o", " ", "c", "o", "m", "p", "l", "e", "t", "e", " ", "P", "D", "F", " ", "f", "o", "r", "m", "s", " ", "e", "f", "f", "i", "c", "i", "e", "n", "t", "l", "y", ".">>],
          [any |-> {<<"e", "x", "p", "o", "r", "t">>}, text |-> <<"E", "x", "p", "o", "r", "t", " ", "P", "D", "F", " ", "c", "o", "n", "t", "e", "n", "t", " ", "t", "o", " ", "v", "a", "r", "i", "o", "u", "s", " ", "f", "o", "r", "m", "a", "t", "s", " ", "i", "n", "c", "l", "u", "d", "i", "n", "g", " ", "t", "e", "x", "t", ",", " ", "i", "m", "a", "g", "e", "s", ",", " ", "a", "n", "d", " ", "o", "t", "h", "e", "r", " ", "d", "o", "c", "u", "m", "e", "n", "t", " ", "t", "y", "p", "e", "s", ".">>],
          [any |-> {<<"e", "d", "i", "t">>}, text |-> <<"E", "d", "i", "t", " ", "t", "e", "x", "t", " ", "a", "n", "d", " ", "i", "m", "a", "g", "e", "s", " ", "i", "n", " ", "P", "D", "F", " ", "d", "o", "c", "u", "m", "e", "n", "t", "s", " ", "u", "s", "i", "n", "g", " ", "A", "c", "r", "o", "b", "a", "t", "'", "s", " ", "e", "d", "i", "t", "i", "n", "g", " ", "t", "o", "o", "l", "s", ".">>],
          [any |-> {<<"s", "h", "a", "r", "e">>}, text |-> <<"S", "h", "a", "r", "e", " ", "P", "D", "F", " ", "d", "o", "c", "u", "m", "e", "n", "t", "s", " ", "t", "h", "r", "o", "u", "g", "h", " ", "e", "m", "a", "i", "l", ",", " ", "l", "i", "n", "k", "s", ",", " ", "o", "r", " ", "c", "l", "o", "u", "d", " ", "s", "t", "o", "r", "a", "g", "e", " ", "f", "o", "r", " ", "c", "o", "l", "l", "a", "b", "o", "r", "a", "t", "i", "o", "n", ".">>],
          [any |-> {<<"s", "i", "g", "n", "a", "t", "u", "r", "e">>}, text |-> <<"R", "e", "q", "u", "e", "s", "t", " ", "e", "l", "e", "c", "t", "r", "o", "n", "i", "c", " ", "s", "i", "g", "n", "a", "t", "u", "r", "e", "s", " ", "f", "r", "o", "m", " ", "m", "u", "l", "t", "i", "p", "l", "e", " ", "r", "e", "c", "i", "p", "i", "e", "n", "t", "s", " ", "u", "s", "i", "n", "g", " ", "A", "c", "r", "o", "b", "a", "t", "'", "s", " ", "e", "-", "s", "i", "g", "n", "a", "t", "u", "r", "e", " ", "f", "e", "a", "t", "u", "r", "e", "s", ".">>],
          [any |-> {<<"c", "r", "e", "a", "t", "e">>, <<"c", "o", "n", "v", "e", "r", "t">>}, text |-> <<"C", "r", "e", "a", "t", "e", " ", "P", "D", "F", "s", " ", "f", "r", "o", "m", " ", "v", "a", "r", "i", "o", "u", "s", " ", "f", "i", "l", "e", " ", "f", "o", "r", "m", "a", "t", "s", " ", "a", "n", "d", " ", "c", "o", "n", "v", "e", "r", "t", " ", "e", "x", "i", "s", "t", "i", "n", "g", " ", "d", "o", "c", "u", "m", "e", "n", "t", "s", " ", "t", "o", " ", "P", "D", "F", ".">>],
          [any |-> {<<"a", "i">>, <<"g", "e", "n", "e", "r", "a", "t", "i", "v", "e">>}, text |-> <<"U", "s", "e", " ", "g", "e", "n", "e", "r", "a", "t", "i", "v", "e", " ", "A", "I", " ", "f", "e", "a", "t", "u", "r", "e", "s", " ", "i", "n", " ", "A", "c", "r", "o", "b", "a", "t", " ", "t", "o", " ", "q", "u", "i", "c", "k", "l", "y", " ", "s", "c", "a", "n", " ", "a", "n", "d", " ", "a", "n", "a", "l", "y", "z", "e", " ", "P", "D", "F", " ", "c", "o", "n", "t", "e", "n", "t", ".">>] >>],
       [doc |-> {<<"t", "r", "a", "v", "e", "l">>, <<"t", "o", "u", "r", "i", "s", "m">>, <<"d", "e", "s", "t", "i", "n", "a", "t", "i", "o", "n">>},
        rules |-> <<
          [any |-> {<<"a", "c", "t", "i", "v", "i", "t", "i", "e", "s">>}, text |-> <<"D", "i", "s", "c", "o", "v", "e", "r", " ", "v", "a", "r", "i", "o", "u", "s", " ", "a", "c", "t", "i", "v", "i", "t", "i", "e", "s", " ", "a", "n", "d", " ", "a", "t", "t", "r", "a", "c", "t", "i", "o", "n", "s", " ", "a", "v", "a", "i", "l", "a", "b", "l", "e", " ", "f", "o", "r", " ", "v", "i", "s", "i", "t", "o", "r", "s", " ", "t", "o", " ", "e", "n", "j", "o", "y", ".">>],
          [any |-> {<<"t", "i", "p", "s">>}, text |-> <<"E", "s", "s", "e", "n", "t", "i", "a", "l", " ", "t", "r", "a", "v", "e", "l", " ", "t", "i", "p", "s", " ", "a", "n", "d", " ", "p", "l", "a", "n", "n", "i", "n", "g", " ", "a", "d", "v", "i", "c", "e", " ", "f", "o", "r", " ", "a", " ", "s", "u", "c", "c", "e", "s", "s", "f", "u", "l", " ", "t", "r", "i", "p", ".">>],
          [any |-> {<<"c", "u", "i", "s", "i", "n", "e">>}, text |-> <<"E", "x", "p", "l", "o", "r", "e", " ", "l", "o", "c", "a", "l", " ", "c", "u", "i", "s", "i", "n", "e", " ", "a", "n", "d", " ", "d", "i", "n", "i", "n", "g", " ", "e", "x", "p", "e", "r", "i", "e", "n", "c", "e", "s", " ", "i", "n", " ", "t", "h", "e", " ", "d", "e", "s", "t", "i", "n", "a", "t", "i", "o", "n", ".">>],
          [any |-> {<<"c", "u", "l", "t", "u", "r", "e">>}, text |-> <<"L", "e", "a", "r", "n", " ", "a", "b", "o", "u", "t", " ", "l", "o", "c", "a", "l", " ", "c", "u", "l", "t", "u", "r", "e", ",", " ", "t", "r", "a", "d", "i", "t", "i", "o", "n", "s", ",", " ", "a", "n", "d", " ", "h", "e", "r", "i", "t", "a", "g", "e", " ", "o", "f", " ", "t", "h", "e", " ", "r", "e", "g", "i", "o", "n", ".">>],
          [any |-> {<<"c", "i", "t", "y">>}, text |-> <<"C", "o", "m", "p", "r", "e", "h", "e", "n", "s", "i", "v", "e", " ", "g", "u", "i", "d", "e", " ", "t", "o", " ", "m", "a", "j", "o", "r", " ", "c", "i", "t", "i", "e", "s", " ", "a", "n", "d", " ", "u", "r", "b", "a", "n", " ", "a", "t", "t", "r", "a", "c", "t", "i", "o", "n", "s", ".">>],
          [any |-> {<<"c", "o", "a", "s", "t", "a", "l">>}, text |-> <<"C", "o", "a", "s", "t", "a", "l", " ", "a", "c", "t", "i", "v", "i", "t", "i", "e", "s", " ", "a", "n", "d", " ", "b", "e", "a", "c", "h", "-", "r", "e", "l", "a", "t", "e", "d", " ", "e", "x", "p", "e", "r", "i", "e", "n", "c", "e", "s", " ", "f", "o", "r", " ", "v", "i", "s", "i", "t", "o", "r", "s", ".">>] >>],
       [doc |-> {<<"b", "u", "s", "i", "n", "e", "s", "s">>, <<"c", "o", "r", "p", "o", "r", "a", "t", "e">>, <<"f", "i", "n", "a", "n", "c", "i", "a", "l">>},
        rules |-> <<
          [any |-> {<<>>}, text |-> <<"P", "r", "o", "f", "e", "s", "s", "i", "o", "n", "a", "l", " ", "a", "n", "a", "l", "y", "s", "i", "s", " ", "a", "n", "d", " ", "s", "t", "r", "a", "t", "e", "g", "i", "c", " ", "i", "n", "s", "i", "g", "h", "t", "s", " ", "f", "o", "r", " ", "b", "u", "s", "i", "n", "e", "s", "s", " ", "d", "e", "c", "i", "s", "i", "o", "n", "-", "m", "a", "k", "i", "n", "g", ".">>] >>],
       [doc |-> {<<"r", "e", "s", "e", "a", "r", "c", "h">>, <<"s", "t", "u", "d", "y">>, <<"a", "c", "a", "d", "e", "m", "i", "c">>},
        rules |-> <<
          [any |-> {<<>>}, text |-> <<"R", "e", "s", "e", "a", "r", "c", "h", " ", "f", "i", "n", "d", "i", "n", "g", "s", " ", "a", "n", "d", " ", "m", "e", "t", "h", "o", "d", "o", "l", "o", "g", "y", " ", "f", "o", "r", " ", "a", "c", "a", "d", "e", "m", "i", "c", " ", "a", "n", "a", "l", "y", "s", "i", "s", " ", "a", "n", "d", " ", "s", "t", "u", "d", "y", ".">>] >>] >>

\* str.startswith
StartsWith(t, prefix) == Len(prefix) <= Len(t) /\ SubSeq(t, 1, Len(prefix)) = prefix

\* The loop over generic_prefixes, from prefix number n on.
RECURSIVE DropPrefixes(_, _)
DropPrefixes(t, n) ==
    IF n > Len(GenericPrefixes) THEN t
    ELSE IF StartsWith(t, GenericPrefixes[n])
         THEN DropPrefixes(StrStrip(SubSeq(t, Len(GenericPrefixes[n]) + 1, Len(t))), n + 1)
         ELSE DropPrefixes(t, n + 1)

\* '. '.join(parts)
RECURSIVE JoinSentences(_)
JoinSentences(parts) ==
    IF parts = <<>> THEN <<>>
    ELSE IF Len(parts) = 1 THEN parts[1]
    ELSE parts[1] \o <<".", " ">> \o JoinSentences(Tail(parts))

\* s + '.' unless s ends with '.'
WithPeriod(s) == IF s # <<>> /\ s[Len(s)] = "." THEN s ELSE s \o <<".">>

\* The canned sentence of the bucket the document name selects.
CannedText(doc_lower, text_lower) ==
    LET b == FirstIndex(Len(TextBuckets),
                        LAMBDA i : ContainsAny(doc_lower, TextBuckets[i].doc))
        rules == TextBuckets[b].rules
        r == FirstIndex(Len(rules), LAMBDA i : ContainsAny(text_lower, rules[i].any))
    IN  IF b = 0 \/ r = 0 THEN [found |-> FALSE, value |-> <<>>]
        ELSE [found |-> TRUE, value |-> rules[r].text]

\* The sentences that hold one of the sentence words.
MeaningfulSentences(sentences) ==
    SelectSeq(sentences, LAMBDA s :
        Len(s) > MinSentenceLen /\ ContainsAny(Lower(s), SentenceWords))

\* The rewriting with the canned sentence tried before the sentences.
RewriteTextCannedFirst(document_name, text, sentences) ==
    LET meaningful == MeaningfulSentences(sentences)
        canned == CannedText(Lower(document_name), Lower(text))
        usable == SelectSeq(sentences, LAMBDA s :
                      Len(s) > MinDefaultSentenceLen /\ Len(s) < MaxConciseTextLen)
    IN  IF canned.found THEN canned.value
        ELSE IF meaningful # <<>>
        THEN WithPeriod(JoinSentences(Take(meaningful, SentencesKept)))
        ELSE IF usable # <<>> THEN WithPeriod(usable[1])
        ELSE Take(text, MaxConciseTextLen)
             \o (IF Len(text) > MaxConciseTextLen THEN Ellipsis ELSE <<>>)

\* The text once it is known not to be returned as it is: text is the
\* stripped text without the generic prefixes, sentences its stripped
\* sentences.
RewriteText(document_name, text, sentences) ==
    LET meaningful == MeaningfulSentences(sentences)
        canned == CannedText(Lower(document_name), Lower(text))
        usable == SelectSeq(sentences, LAMBDA s :
                      Len(s) > MinDefaultSentenceLen /\ Len(s) < MaxConciseTextLen)
    IN  IF meaningful # <<>>
        THEN WithPeriod(JoinSentences(Take(meaningful, SentencesKept)))
        ELSE IF canned.found THEN canned.value
        ELSE IF usable # <<>> THEN WithPeriod(usable[1])
        ELSE Take(text, MaxConciseTextLen)
             \o (IF Len(text) > MaxConciseTextLen THEN Ellipsis ELSE <<>>)

StrippedSentences(text) ==
    Bind(SplitOn(text, "."), LAMBDA parts :
        ToTuple([n \in 1..Len(parts) |-> StrStrip(parts[n])]))

\* document_name.lower() of line 693 raises for a document name that is no
\* string; the handler of lines 744-746 answers original_text[:200].  For a
\* text that is None or a number len(original_text) raises and, in the
\* handler, original_text[:200] raises again: the exception leaves the
\* function.
EnhanceAnalysisText(document_name, original_text) ==
    IF ~IsStr(original_text) THEN Raised
    ELSE IF /\ Len(original_text) <= MaxConciseTextLen
            /\ ContainsAny(Lower(original_text), ConciseTextWords)
    THEN original_text
    ELSE Bind(DropPrefixes(StrStrip(original_text), 1), LAMBDA text :
            Bind(StrippedSentences(text), LAMBDA sentences :
                IF ~IsStr(document_name) /\ MeaningfulSentences(sentences) = <<>>
                THEN Take(original_text, MaxConciseTextLen)
                ELSE RewriteText(document_name, text, sentences)))

(***************************************************************************)
(* The persona of a report: _detect_persona_from_content,                  *)
(* _detect_collection_persona, _get_job_description_for_persona and the    *)
(* formatting of the persona name.                                         *)
(***************************************************************************)
\* The keyword table of the formatter, in the order of the counts dict.
DisplayPersonas ==
    << [persona |-> <<"T", "e", "c", "h", "n", "i", "c", "a", "l", " ", "W", "r", "i", "t", "e", "r">>,
        keywords |-> {<<"a", "c", "r", "o", "b", "a", "t">>, <<"p", "d", "f">>, <<"f", "o", "r", "m">>, <<"f", "i", "l", "l">>, <<"s", "i", "g", "n">>, <<"e", "x", "p", "o", "r", "t">>, <<"e", "d", "i", "t">>, <<"s", "h", "a", "r", "e">>, <<"c", "o", "n", "v", "e", "r", "t">>, <<"c", "r", "e", "a", "t", "e">>,
                      <<"s", "i", "g", "n", "a", "t", "u", "r", "e">>, <<"e", "-", "s", "i", "g", "n", "a", "t", "u", "r", "e">>, <<"d", "o", "c", "u", "m", "e", "n", "t">>, <<"t", "o", "o", "l">>, <<"f", "e", "a", "t", "u", "r", "e">>, <<"o", "p", "t", "i", "o", "n">>, <<"s", "e", "l", "e", "c", "t">>, <<"c", "h", "o", "o", "s", "e">>,
                      <<"i", "n", "t", "e", "r", "a", "c", "t", "i", "v", "e">>, <<"f", "i", "e", "l", "d">>, <<"t", "e", "x", "t", " ", "f", "i", "e", "l", "d">>, <<"c", "h", "e", "c", "k", "b", "o", "x">>, <<"r", "a", "d", "i", "o", " ", "b", "u", "t", "t", "o", "n">>, <<"r", "e", "c", "i", "p", "i", "e", "n", "t">>, <<"e", "m", "a", "i", "l">>}],
       [persona |-> <<"H", "R", " ", "P", "r", "o", "f", "e", "s", "s", "i", "o", "n", "a", "l">>,
        keywords |-> {<<"o", "n", "b", "o", "a", "r", "d", "i", "n", "g">>, <<"c", "o", "m", "p", "l", "i", "a", "n", "c", "e">>, <<"f", "o", "r", "m">>, <<"f", "i", "l", "l", "a", "b", "l", "e">>, <<"s", "i", "g", "n", "a", "t", "u", "r", "e">>, <<"d", "o", "c", "u", "m", "e", "n", "t">>, <<"e", "m", "p", "l", "o", "y", "e", "e">>,
                      <<"h", "r">>, <<"h", "u", "m", "a", "n", " ", "r", "e", "s", "o", "u", "r", "c", "e", "s">>, <<"p", "r", "o", "f", "e", "s", "s", "i", "o", "n", "a", "l">>, <<"b", "u", "s", "i", "n", "e", "s", "s">>, <<"w", "o", "r", "k", "f", "l", "o", "w">>, <<"p", "r", "o", "c", "e", "s", "s">>, <<"a", "p", "p", "r", "o", "v", "a", "l">>}],
       [persona |-> <<"T", "r", "a", "v", "e", "l", " ", "P", "l", "a", "n", "n", "e", "r">>,
        keywords |-> {<<"t", "r", "a", "v", "e", "l">>, <<"t", "o", "u", "r", "i", "s", "m">>, <<"d", "e", "s", "t", "i", "n", "a", "t", "i", "o", "n">>, <<"v", "a", "c", "a", "t", "i", "o", "n">>, <<"h", "o", "l", "i", "d", "a", "y">>, <<"t", "r", "i", "p">>, <<"v", "i", "s", "i", "t">>, <<"t", "o", "u", "r", "i", "s", "t">>,
                      <<"a", "c", "t", "i", "v", "i", "t", "i", "e", "s">>, <<"a", "t", "t", "r", "a", "c", "t", "i", "o", "n", "s">>, <<"c", "u", "i", "s", "i", "n", "e">>, <<"c", "u", "l", "t", "u", "r", "e">>, <<"h", "o", "t", "e", "l">>, <<"r", "e", "s", "t", "a", "u", "r", "a", "n", "t">>, <<"b", "e", "a", "c", "h">>, <<"c", "o", "a", "s", "t", "a", "l">>}],
       [persona |-> <<"B", "u", "s", "i", "n", "e", "s", "s", " ", "A", "n", "a", "l", "y", "s", "t">>,
        keywords |-> {<<"b", "u", "s", "i", "n", "e", "s", "s">>, <<"c", "o", "r", "p", "o", "r", "a", "t", "e">>, <<"f", "i", "n", "a", "n", "c", "i", "a", "l">>, <<"r", "e", "p", "o", "r", "t">>, <<"a", "n", "a", "l", "y", "s", "i", "s">>, <<"s", "t", "r", "a", "t", "e", "g", "y">>, <<"m", "a", "n", "a", "g", "e", "m", "e", "n", "t">>,
                      <<"m", "a", "r", "k", "e", "t">>, <<"s", "a", "l", "e", "s">>, <<"p", "r", "o", "f", "i", "t">>, <<"r", "e", "v", "e", "n", "u", "e">>, <<"i", "n", "v", "e", "s", "t", "m", "e", "n", "t">>, <<"b", "u", "d", "g", "e", "t">>, <<"p", "l", "a", "n", "n", "i", "n", "g">>}],
       [persona |-> <<"R", "e", "s", "e", "a", "r", "c", "h", "e", "r">>,
        keywords |-> {<<"r", "e", "s", "e", "a", "r", "c", "h">>, <<"s", "t", "u", "d", "y">>, <<"a", "c", "a", "d", "e", "m", "i", "c">>, <<"t", "h", "e", "s", "i", "s">>, <<"p", "a", "p", "e", "r">>, <<"m", "e", "t", "h", "o", "d", "o", "l", "o", "g", "y">>, <<"f", "i", "n", "d", "i", "n", "g", "s">>, <<"a", "n", "a", "l", "y", "s", "i", "s">>,
                      <<"l", "i", "t", "e", "r", "a", "t", "u", "r", "e">>, <<"r", "e", "v", "i", "e", "w">>, <<"c", "o", "n", "c", "l", "u", "s", "i", "o", "n">>, <<"d", "i", "s", "c", "u", "s", "s", "i", "o", "n">>, <<"d", "a", "t", "a">>, <<"e", "x", "p", "e", "r", "i", "m", "e", "n", "t">>, <<"s", "u", "r", "v", "e", "y">>}],
       [persona |-> <<"L", "e", "g", "a", "l", " ", "P", "r", "o", "f", "e", "s", "s", "i", "o", "n", "a", "l">>,
        keywords |-> {<<"l", "e", "g", "a", "l">>, <<"l", "a", "w">>, <<"c", "o", "n", "t", "r", "a", "c", "t">>, <<"a", "g", "r", "e", "e", "m", "e", "n", "t">>, <<"t", "e", "r", "m", "s">>, <<"c", "o", "n", "d", "i", "t", "i", "o", "n", "s">>, <<"r", "i", "g", "h", "t", "s">>, <<"o", "b", "l", "i", "g", "a", "t", "i", "o", "n", "s">>,
                      <<"l", "i", "a", "b", "i", "l", "i", "t", "y">>, <<"c", "o", "m", "p", "l", "i", "a", "n", "c", "e">>, <<"r", "e", "g", "u", "l", "a", "t", "o", "r", "y">>, <<"c", "l", "a", "u", "s", "e">>, <<"s", "i", "g", "n", "a", "t", "u", "r", "e">>, <<"d", "o", "c", "u", "m", "e", "n", "t">>}],
       [persona |-> <<"M", "e", "d", "i", "c", "a", "l", " ", "P", "r", "o", "f", "e", "s", "s", "i", "o", "n", "a", "l">>,
        keywords |-> {<<"m", "e", "d", "i", "c", "a", "l">>, <<"h", "e", "a", "l", "t", "h">>, <<"c", "l", "i", "n", "i", "c", "a", "l">>, <<"p", "a", "t", "i", "e", "n", "t">>, <<"d", "i", "a", "g", "n", "o", "s", "i", "s">>, <<"t", "r", "e", "a", "t", "m", "e", "n", "t">>, <<"s", "y", "m", "p", "t", "o", "m", "s">>,
                      <<"m", "e", "d", "i", "c", "a", "t", "i", "o", "n">>, <<"t", "h", "e", "r", "a", "p", "y">>, <<"d", "o", "c", "t", "o", "r">>, <<"h", "o", "s", "p", "i", "t", "a", "l">>, <<"c", "a", "r", "e">>, <<"w", "e", "l", "l", "n", "e", "s", "s">>}] >>

GeneralUser == <<"G", "e", "n", "e", "r", "a", "l", " ", "U", "s", "e", "r">>
GeneralSlug == <<"g", "e", "n", "e", "r", "a", "l">>
AutoSlug == <<"a", "u", "t", "o">>

\* text_content += text_block.get("text", "") + " "
RECURSIVE BlocksText(_)
BlocksText(blocks) ==
    IF blocks = <<>> THEN <<>>
    ELSE Head(blocks).text \o <<" ">> \o BlocksText(Tail(blocks))

\* The number of keywords of the list that occur in the text.
KeywordsPresent(text_lower, keywords) ==
    Cardinality({k \in keywords : Contains(text_lower, k)})

\* The first persona of the table with the highest count.
DisplayPersonaOf(text_lower) ==
    Bind(ToTuple([p \in 1..Len(DisplayPersonas) |->
                     KeywordsPresent(text_lower, DisplayPersonas[p].keywords)]),
         LAMBDA counts :
            Bind(FirstIndex(Len(counts), LAMBDA p :
                      counts[p] > 0 /\ \A q \in 1..Len(counts) : counts[q] <= counts[p]),
                 LAMBDA best :
                    IF best = 0 THEN GeneralUser ELSE DisplayPersonas[best].persona))

\* A persona_config is None or an empty dict (kind "none"), a dict without
\* the key persona_type (kind "missing"), a dict whose persona_type is a
\* string (kind "str") or a dict whose persona_type is not a string (kind
\* "other", and kind "unhashable" when it is a list or a dict).  A value
\* that is no dict is of kind "falsy" (0, False, "", []), which the test
\* of line 365 passes over as it does None, or of kind "nodict" (7, "auto",
\* [1]), whose missing get() raises into the handler of lines 449-451.  The
\* value returned is a string (is_str) or that other value.
DetectPersonaFromContent(content, persona_config) ==
    IF persona_config.kind = "missing"
    THEN [is_str |-> TRUE, value |-> GeneralSlug]
    ELSE IF persona_config.kind = "nodict"
    THEN [is_str |-> TRUE, value |-> GeneralUser]
    ELSE IF persona_config.kind \in {"other", "unhashable"}
    THEN [is_str |-> FALSE, value |-> <<>>]
    ELSE IF persona_config.kind = "str" /\ persona_config.persona_type # AutoSlug
    THEN [is_str |-> TRUE, value |-> persona_config.persona_type]
    ELSE [is_str |-> TRUE,
          value |-> DisplayPersonaOf(Lower(BlocksText(content.text_content)))]

\* The personas counted by _detect_collection_persona in the order of first
\* insertion into persona_counts.
RECURSIVE FirstSeen(_)
FirstSeen(personas) ==
    IF personas = <<>> THEN <<>>
    ELSE LET rest == FirstSeen(SubSeq(personas, 1, Len(personas) - 1))
             last == personas[Len(personas)]
         IN  IF last = <<>> \/ last = AutoSlug
                \/ \E i \in 1..Len(rest) : rest[i] = last
             THEN rest
             ELSE Append(rest, last)

TimesSeen(personas, p) == Cardinality({i \in 1..Len(personas) : personas[i] = p})

\* _detect_collection_persona with max() answering the last key on a tie.
DetectCollectionPersonaLast(detected_personas) ==
    Bind(FirstSeen(detected_personas), LAMBDA keys :
        IF keys = <<>> THEN GeneralSlug
        ELSE keys[CHOOSE i \in 1..Len(keys) :
                /\ \A j \in 1..Len(keys) :
                      TimesSeen(detected_personas, keys[j])
                          <= TimesSeen(detected_personas, keys[i])
                /\ \A j \in (i + 1)..Len(keys) :
                      TimesSeen(detected_personas, keys[j])
                          < TimesSeen(detected_personas, keys[i])])

DetectCollectionPersona(detected_personas) ==
    Bind(FirstSeen(detected_personas), LAMBDA keys :
        IF keys = <<>> THEN GeneralSlug
        ELSE keys[FirstIndex(Len(keys), LAMBDA i :
                \A j \in 1..Len(keys) :
                    TimesSeen(detected_personas, keys[j])
                        <= TimesSeen(detected_personas, keys[i]))])

JobDescriptions ==
    << [persona |-> <<"T", "e", "c", "h", "n", "i", "c", "a", "l", " ", "W", "r", "i", "t", "e", "r">>,
        job |-> "Create technical documentation and user guides for software applications and tools."],
       [persona |-> <<"H", "R", " ", "P", "r", "o", "f", "e", "s", "s", "i", "o", "n", "a", "l">>,
        job |-> "Create and manage fillable forms for onboarding and compliance."],
       [persona |-> <<"T", "r", "a", "v", "e", "l", " ", "P", "l", "a", "n", "n", "e", "r">>,
        job |-> "Plan trips and create travel itineraries for clients."],
       [persona |-> <<"B", "u", "s", "i", "n", "e", "s", "s", " ", "A", "n", "a", "l", "y", "s", "t">>,
        job |-> "Analyze business documents and provide strategic insights."],
       [persona |-> <<"R", "e", "s", "e", "a", "r", "c", "h", "e", "r">>,
        job |-> "Conduct comprehensive research and analysis of academic documents."],
       [persona |-> <<"L", "e", "g", "a", "l", " ", "P", "r", "o", "f", "e", "s", "s", "i", "o", "n", "a", "l">>,
        job |-> "Review and analyze legal documents and contracts."],
       [persona |-> <<"M", "e", "d", "i", "c", "a", "l", " ", "P", "r", "o", "f", "e", "s", "s", "i", "o", "n", "a", "l">>,
        job |-> "Analyze medical documents and patient information."],
       [persona |-> <<"G", "e", "n", "e", "r", "a", "l", " ", "U", "s", "e", "r">>,
        job |-> "Process and analyze various types of documents for general use."] >>

GenericJob == "Process and analyze documents for professional use."
ErrorJob == "Document analysis"
ErrorPersona == <<"G", "e", "n", "e", "r", "a", "l">>

\* job_descriptions.get(persona, <the generic string>)
GetJobDescriptionForPersona(persona) ==
    IF \E i \in 1..Len(JobDescriptions) : JobDescriptions[i].persona = persona
    THEN JobDescriptions[CHOOSE i \in 1..Len(JobDescriptions) :
                            JobDescriptions[i].persona = persona].job
    ELSE GenericJob

\* The cased characters: str.title() lower-cases the character that follows
\* one and title-cases any other.
IsLetter(c) ==
    \/ c \in UpperCase
    \/ \E u \in UpperCase : LowerOf[u] = c
    \/ c \in {"ª", "µ", "º", "ß", "ÿ"}

UpperChar(c) ==
    IF \E u \in UpperCase : LowerOf[u] = c
    THEN CHOOSE u \in UpperCase : LowerOf[u] = c
    ELSE c

\* The title case of one character.
TitleChar(c) ==
    IF c = "ß" THEN <<"S", "s">>
    ELSE IF c = "µ" THEN <<"<U+039C>">>
    ELSE IF c = "ÿ" THEN <<"<U+0178>">>
    ELSE <<UpperChar(c)>>

\* persona.replace("_", " ").title()
FormatPersona(persona) ==
    Bind(ToTuple([i \in 1..Len(persona) |->
                     IF persona[i] = "_" THEN " " ELSE persona[i]]),
         LAMBDA spaced :
            Concat([i \in 1..Len(spaced) |->
                IF i = 1 \/ ~IsLetter(spaced[i - 1])
                THEN TitleChar(spaced[i])
                ELSE <<LowerChar(spaced[i])>>]))

\* Lines 103-107 and 312-316: the job description is looked up under the
\* persona as detected, the name is formatted afterwards.
ReportPersona(persona) ==
    [persona |-> FormatPersona(persona),
     job_to_be_done |-> GetJobDescriptionForPersona(persona)]

FormatErrorOutput(filename) ==
    [metadata |-> [input_documents |-> <<filename>>, persona |-> ErrorPersona,
                   job_to_be_done |-> ErrorJob, error |-> TRUE],
     extracted_sections |-> <<>>, subsection_analysis |-> <<>>]

(***************************************************************************)
(* format_single_pdf_output                                                *)
(***************************************************************************)
MaxReportEntries == 5
MinSectionTextLen == 30
MaxSentenceTitleLen == 80
MaxSingleTitleLen == 100
MinAnalysisLen == 50
DocumentContent == <<"D", "o", "c", "u", "m", "e", "n", "t", " ", "C", "o", "n", "t", "e", "n", "t">>

\* The positions 1..Len(s) as a sequence.
Indices(s) == ToTuple([i \in 1..Len(s) |-> i])

\* text.split('.')[0], cut to 80 characters and "..." when longer, stripped.
FirstSentenceTitle(text) ==
    Bind(SplitOn(text, ".")[1], LAMBDA head :
        StrStrip(IF Len(head) > MaxSentenceTitleLen
                 THEN Take(head, MaxSentenceTitleLen) \o Ellipsis
                 ELSE head))

\* The sections made from the first paragraphs (lines 36-46).
SectionsFromContent(filename, paragraphs) ==
    Bind(Take(paragraphs, MaxReportEntries), LAMBDA blocks :
        Bind(SelectSeq(Indices(blocks),
                       LAMBDA i : Len(blocks[i].text) > MinSectionTextLen),
             LAMBDA kept :
                ToTuple([n \in 1..Len(kept) |->
                    [document |-> filename,
                     section_title |-> FirstSentenceTitle(blocks[kept[n]].text),
                     importance_rank |-> kept[n],
                     page_number |-> blocks[kept[n]].page]])))

\* The sections taken from the structure (lines 57-65); a title that is
\* None is passed over.
SectionsFromStructure(filename, structure_sections) ==
    Bind(Take(structure_sections, MaxReportEntries), LAMBDA secs :
        Bind(SelectSeq(Indices(secs), LAMBDA i :
                 IsTruthy(secs[i].title) /\ StrStrip(secs[i].title) # <<>>),
             LAMBDA kept :
                ToTuple([n \in 1..Len(kept) |->
                    [document |-> filename,
                     section_title |-> Take(StrStrip(secs[kept[n]].title), MaxSingleTitleLen),
                     importance_rank |-> kept[n],
                     page_number |-> secs[kept[n]].page]])))

\* The sections without the fallback section "Document Content".
SingleSectionsNoFallback(filename, structure, content) ==
    IF structure.sections = <<>>
    THEN SectionsFromContent(filename, content.text_content)
    ELSE SectionsFromStructure(filename, structure.sections)

SingleSections(filename, structure, content) ==
    IF structure.sections = <<>>
    THEN IF content.text_content # <<>>
         THEN SectionsFromContent(filename, content.text_content)
         ELSE <<[document |-> filename, section_title |-> DocumentContent,
                 importance_rank |-> 1, page_number |-> 1]>>
    ELSE SectionsFromStructure(filename, structure.sections)

\* The paragraphs of blocks whose refined text is longer than 50
\* characters, as (refined text, page).
RefinedBlocks(blocks) ==
    Bind(ToTuple([i \in 1..Len(blocks) |->
                     [refined_text |-> RefineText(blocks[i].text),
                      page_number |-> blocks[i].page]]),
         LAMBDA refined :
            SelectSeq(refined, LAMBDA b : Len(b.refined_text) > MinAnalysisLen))

\* str(n) for a natural number.
RECURSIVE Decimal(_)
Decimal(n) ==
    LET digit == <<"0", "1", "2", "3", "4", "5", "6", "7", "8", "9">>[(n % 10) + 1]
    IN  IF n < 10 THEN <<digit>> ELSE Decimal(n \div 10) \o <<digit>>

\* The sentence made from the metadata when no paragraph was kept.
MetadataSentence(metadata) ==
    IF metadata.title # <<>> \/ metadata.subject # <<>>
    THEN <<"T", "h", "i", "s", " ", "d", "o", "c", "u", "m", "e", "n", "t", " ", "a", "p", "p", "e", "a", "r", "s", " ", "t", "o", " ", "b", "e", " ", "a", "b", "o", "u", "t", " ">>
         \o (IF metadata.title # <<>> THEN metadata.title ELSE metadata.subject)
         \o <<".", " ", "C", "o", "n", "t", "e", "n", "t", " ", "a", "n", "a", "l", "y", "s", "i", "s", " ", "c", "o", "m", "p", "l", "e", "t", "e", "d", " ", "s", "u", "c", "c", "e", "s", "s", "f", "u", "l", "l", "y", " ", "w", "i", "t", "h", " ", "a", "v", "a", "i", "l", "a", "b", "l", "e", " ", "m", "e", "t", "a", "d", "a", "t", "a", ".">>
    ELSE <<"P", "D", "F", " ", "c", "o", "n", "t", "e", "n", "t", " ", "p", "r", "o", "c", "e", "s", "s", "e", "d", " ", "s", "u", "c", "c", "e", "s", "s", "f", "u", "l", "l", "y", ".", " ", "D", "o", "c", "u", "m", "e", "n", "t", " ", "c", "o", "n", "t", "a", "i", "n", "s", " ">>
         \o Decimal(metadata.pages)
         \o <<" ", "p", "a", "g", "e", "s", " ", "w", "i", "t", "h", " ", "s", "t", "r", "u", "c", "t", "u", "r", "e", "d", " ", "c", "o", "n", "t", "e", "n", "t", " ", "s", "u", "i", "t", "a", "b", "l", "e", " ", "f", "o", "r", " ", "a", "n", "a", "l", "y", "s", "i", "s", ".">>

SingleAnalysis(filename, metadata, content) ==
    Bind(RefinedBlocks(Take(content.text_content, MaxReportEntries)), LAMBDA kept :
        IF kept # <<>>
        THEN ToTuple([n \in 1..Len(kept) |->
                [document |-> filename, refined_text |-> kept[n].refined_text,
                 page_number |-> kept[n].page_number]])
        ELSE <<[document |-> filename,
                refined_text |-> MetadataSentence(metadata),
                page_number |-> 1]>>)

\* Line 59: section_title.strip() raises for a title that is a number, in
\* one of the first five sections of the structure.
StripRaises(structure) ==
    \E i \in 1..Min(Len(structure.sections), MaxReportEntries) :
        structure.sections[i].title = NumberValue

FormatSinglePdfOutput(filename, metadata, structure, content, persona_config) ==
    Bind(DetectPersonaFromContent(content, persona_config), LAMBDA persona :
        IF StripRaises(structure) \/ ~persona.is_str
        THEN FormatErrorOutput(filename)
        ELSE [metadata |->
                 [input_documents |-> <<filename>>,
                  persona |-> ReportPersona(persona.value).persona,
                  job_to_be_done |-> ReportPersona(persona.value).job_to_be_done,
                  error |-> FALSE],
              extracted_sections |-> SingleSections(filename, structure, content),
              subsection_analysis |-> SingleAnalysis(filename, metadata, content)])

(***************************************************************************)
(* format_collection_output                                                *)
(***************************************************************************)
PerDocument == 2

PreferredWords ==
    {<<"b", "e", "a", "c", "h">>, <<"c", "o", "a", "s", "t", "a", "l">>, <<"c", "u", "l", "i", "n", "a", "r", "y">>, <<"c", "o", "o", "k", "i", "n", "g">>, <<"w", "i", "n", "e">>, <<"n", "i", "g", "h", "t", "l", "i", "f", "e">>,
     <<"e", "n", "t", "e", "r", "t", "a", "i", "n", "m", "e", "n", "t">>, <<"w", "a", "t", "e", "r", " ", "s", "p", "o", "r", "t", "s">>, <<"a", "c", "t", "i", "v", "i", "t", "i", "e", "s">>, <<"p", "a", "c", "k", "i", "n", "g">>, <<"t", "i", "p", "s">>,
     <<"r", "e", "s", "t", "a", "u", "r", "a", "n", "t", "s">>, <<"h", "o", "t", "e", "l", "s">>, <<"b", "a", "r", "s">>, <<"c", "l", "u", "b", "s">>, <<"d", "i", "v", "i", "n", "g">>, <<"s", "a", "i", "l", "i", "n", "g">>}

IsProcessed(r) == r.status = "processed" /\ r.has_result

\* Lines 158-174: the first two titled sections of one document, ranked
\* after the sections collected so far.
CollectSections(r, all_sections) ==
    Bind(Take(SelectSeq(r.result.structure.sections, LAMBDA s : IsTruthy(s.title)),
              PerDocument),
         LAMBDA secs :
            all_sections \o
            ToTuple([n \in 1..Len(secs) |->
                [document |-> r.filename,
                 section_title |-> EnhanceSectionTitle(r.filename, secs[n].title),
                 importance_rank |-> Len(all_sections) + n,
                 page_number |-> secs[n].page]]))

\* ChosenBlocks without the limit of the general loop.
ChosenBlocksUnlimited(blocks) ==
    Bind(RefinedBlocks(blocks), LAMBDA kept :
        Bind(SelectSeq(kept, LAMBDA b :
                 ContainsAny(Lower(b.refined_text), PreferredWords)),
             LAMBDA specific :
                IF specific # <<>> THEN Take(specific, PerDocument)
                ELSE kept))

\* Lines 177-225: the first two paragraphs holding a preferred word; the
\* first two paragraphs when none holds one.
ChosenBlocks(blocks) ==
    Bind(RefinedBlocks(blocks), LAMBDA kept :
        Bind(SelectSeq(kept, LAMBDA b :
                 ContainsAny(Lower(b.refined_text), PreferredWords)),
             LAMBDA specific :
                IF specific # <<>> THEN Take(specific, PerDocument)
                ELSE Take(kept, PerDocument)))

CollectAnalysis(r, all_subsection_analysis) ==
    Bind(ChosenBlocks(r.result.content.text_content), LAMBDA chosen :
        all_subsection_analysis \o
        ToTuple([n \in 1..Len(chosen) |->
            [document |-> r.filename,
             refined_text |-> EnhanceAnalysisText(r.filename, chosen[n].refined_text),
             page_number |-> chosen[n].page_number]]))

\* Line 228-229.
CollectPersona(r, detected_personas) ==
    IF r.result.persona_analysis.present
    THEN Append(detected_personas,
                IF r.result.persona_analysis.has_type
                THEN r.result.persona_analysis.persona_type
                ELSE GeneralSlug)
    ELSE detected_personas

NothingCollected ==
    [all_sections |-> <<>>, all_subsection_analysis |-> <<>>,
     processed_files |-> <<>>, detected_personas |-> <<>>]

\* The loop with the sections of a document put before those collected.
RECURSIVE CollectPrepending(_, _)
CollectPrepending(results, n) ==
    IF n = 0 THEN NothingCollected
    ELSE Bind(CollectPrepending(results, n - 1), LAMBDA acc :
            IF ~IsProcessed(results[n]) THEN acc
            ELSE [all_sections |->
                      CollectSections(results[n], <<>>) \o acc.all_sections,
                  all_subsection_analysis |->
                      CollectAnalysis(results[n], <<>>) \o acc.all_subsection_analysis,
                  processed_files |-> Append(acc.processed_files, results[n].filename),
                  detected_personas |->
                      CollectPersona(results[n], acc.detected_personas)])

\* The loop of lines 142-229 over the first n results.
RECURSIVE Collect(_, _)
Collect(results, n) ==
    IF n = 0 THEN NothingCollected
    ELSE Bind(Collect(results, n - 1), LAMBDA acc :
            IF ~IsProcessed(results[n]) THEN acc
            ELSE [all_sections |-> CollectSections(results[n], acc.all_sections),
                  all_subsection_analysis |->
                      CollectAnalysis(results[n], acc.all_subsection_analysis),
                  processed_files |-> Append(acc.processed_files, results[n].filename),
                  detected_personas |->
                      CollectPersona(results[n], acc.detected_personas)])

\* Lines 232-251, over the first n results: sections made from the first
\* two paragraphs of every processed document.
RECURSIVE FallbackSections(_, _)
FallbackSections(results, n) ==
    IF n = 0 THEN <<>>
    ELSE Bind(FallbackSections(results, n - 1), LAMBDA acc :
            IF ~IsProcessed(results[n]) THEN acc
            ELSE Bind(SelectSeq(Take(results[n].result.content.text_content, PerDocument),
                                LAMBDA b : Len(b.text) > MinSectionTextLen),
                      LAMBDA blocks :
                        acc \o ToTuple([k \in 1..Len(blocks) |->
                            [document |-> results[n].filename,
                             section_title |-> FirstSentenceTitle(blocks[k].text),
                             importance_rank |-> Len(acc) + k,
                             page_number |-> blocks[k].page]])))

\* Lines 254-270, over the first n results.
RECURSIVE FallbackAnalysis(_, _)
FallbackAnalysis(results, n) ==
    IF n = 0 THEN <<>>
    ELSE Bind(FallbackAnalysis(results, n - 1), LAMBDA acc :
            IF ~IsProcessed(results[n]) THEN acc
            ELSE Bind(RefinedBlocks(Take(results[n].result.content.text_content, PerDocument)),
                      LAMBDA blocks :
                        acc \o ToTuple([k \in 1..Len(blocks) |->
                            [document |-> results[n].filename,
                             refined_text |-> blocks[k].refined_text,
                             page_number |-> blocks[k].page_number]])))

\* all_sections and all_subsection_analysis when line 272 is reached.
MergedLists(results) ==
    Bind(Collect(results, Len(results)), LAMBDA acc :
        [sections |-> IF acc.all_sections = <<>>
                      THEN FallbackSections(results, Len(results))
                      ELSE acc.all_sections,
         analysis |-> IF acc.all_subsection_analysis = <<>>
                      THEN FallbackAnalysis(results, Len(results))
                      ELSE acc.all_subsection_analysis])

\* Lines 276-309: the kept entries with title and text enhanced.
EnhancedSections(sections) ==
    ToTuple([n \in 1..Len(sections) |->
        [sections[n] EXCEPT !.section_title =
            EnhanceSectionTitle(sections[n].document, sections[n].section_title)]])

EnhancedAnalysis(entries) ==
    ToTuple([n \in 1..Len(entries) |->
        [entries[n] EXCEPT !.refined_text =
            EnhanceAnalysisText(entries[n].document, entries[n].refined_text)]])

\* The report without the truncation of the merged lists.
AssembleCollectionUntruncated(results, lists) ==
    Bind(Collect(results, Len(results)), LAMBDA acc :
        Bind(ReportPersona(DetectCollectionPersona(acc.detected_personas)),
             LAMBDA rp :
                [metadata |-> [input_documents |-> acc.processed_files,
                               persona |-> rp.persona,
                               job_to_be_done |-> rp.job_to_be_done,
                               error |-> FALSE],
                 extracted_sections |-> EnhancedSections(lists.sections),
                 subsection_analysis |-> EnhancedAnalysis(lists.analysis)]))

\* Lines 272-328: the report made from the merged lists.
AssembleCollection(results, lists) ==
    Bind(Collect(results, Len(results)), LAMBDA acc :
        Bind(ReportPersona(DetectCollectionPersona(acc.detected_personas)),
             LAMBDA rp :
                [metadata |-> [input_documents |-> acc.processed_files,
                               persona |-> rp.persona,
                               job_to_be_done |-> rp.job_to_be_done,
                               error |-> FALSE],
                 extracted_sections |->
                     EnhancedSections(Take(lists.sections, MaxReportEntries)),
                 subsection_analysis |->
                     EnhancedAnalysis(Take(lists.analysis, MaxReportEntries))]))

\* The call of _enhance_section_title at line 165 raises: one of the first
\* two titled sections of a processed document has a title that is a
\* number.
EnhancementRaises(results) ==
    \E n \in 1..Len(results) :
        /\ IsProcessed(results[n])
        /\ LET titled == Take(SelectSeq(results[n].result.structure.sections,
                                        LAMBDA s : IsTruthy(s.title)),
                              PerDocument)
           IN  \E i \in 1..Len(titled) : ~IsStr(titled[i].title)

CollectionName == <<"c", "o", "l", "l", "e", "c", "t", "i", "o", "n">>

\* An exception that leaves _enhance_section_title ends the loop of
\* format_collection_output; the handler of lines 330-332 answers the error
\* report.
FormatCollectionOutput(results) ==
    IF EnhancementRaises(results) THEN FormatErrorOutput(CollectionName)
    ELSE AssembleCollection(results, MergedLists(results))

(***************************************************************************)
(* Calls of format_single_pdf_output and of format_collection_output.  The *)
(* arguments are what main.py passes: results of process_pdf to which      *)
(* process_pdf_file added the persona analysis.  Every section and every   *)
(* paragraph of a document is on a page of its own, so the page number of  *)
(* a report entry tells its position in the document.                      *)
(***************************************************************************)
MaxDocs == 4

\* The slugs of the persona analyzer as character strings.
SlugChars ==
    [general |-> <<"g", "e", "n", "e", "r", "a", "l">>, researcher |-> <<"r", "e", "s", "e", "a", "r", "c", "h", "e", "r">>, student |-> <<"s", "t", "u", "d", "e", "n", "t">>,
     business_analyst |-> <<"b", "u", "s", "i", "n", "e", "s", "s", "_", "a", "n", "a", "l", "y", "s", "t">>,
     technical_writer |-> <<"t", "e", "c", "h", "n", "i", "c", "a", "l", "_", "w", "r", "i", "t", "e", "r">>,
     legal_professional |-> <<"l", "e", "g", "a", "l", "_", "p", "r", "o", "f", "e", "s", "s", "i", "o", "n", "a", "l">>,
     medical_professional |-> <<"m", "e", "d", "i", "c", "a", "l", "_", "p", "r", "o", "f", "e", "s", "s", "i", "o", "n", "a", "l">>,
     travel_planner |-> <<"t", "r", "a", "v", "e", "l", "_", "p", "l", "a", "n", "n", "e", "r">>]

NoPersonaAnalysisField == [present |-> FALSE, has_type |-> FALSE, persona_type |-> <<>>]

\* main.process_pdf_file: analyze_content(text_content, "auto") is added to
\* the result when there is text.
PersonaAnalysisOf(paragraphs) ==
    IF paragraphs = <<>> THEN NoPersonaAnalysisField
    ELSE [present |-> TRUE, has_type |-> TRUE,
          persona_type |->
              SlugChars[AnalyzeContent(
                  ToTuple([i \in 1..Len(paragraphs) |->
                              [has_text |-> TRUE, text |-> paragraphs[i].text]]),
                  "auto").persona_type]]

\* The entry main.process_collection_async appends for a document.
ProcessedDocument(filename, metadata, sections, paragraphs) ==
    [filename |-> filename, status |-> "processed", has_result |-> TRUE,
     result |-> [metadata |-> metadata,
                 structure |-> [sections |-> sections],
                 content |-> [text_content |-> paragraphs],
                 persona_analysis |-> PersonaAnalysisOf(paragraphs)]]

\* The entry appended for a document whose processing raised.
FailedDocument(filename) ==
    [filename |-> filename, status |-> "error", has_result |-> FALSE,
     result |-> [metadata |-> [title |-> <<>>, subject |-> <<>>, pages |-> 0],
                 structure |-> [sections |-> <<>>],
                 content |-> [text_content |-> <<>>],
                 persona_analysis |-> NoPersonaAnalysisField]]

DocTravel ==
    ProcessedDocument(<<"t", "r", "a", "v", "e", "l", "_", "g", "u", "i", "d", "e", ".", "p", "d", "f">>,
        [title |-> <<"T", "r", "a", "v", "e", "l", " ", "g", "u", "i", "d", "e">>, subject |-> <<>>, pages |-> 3],
        <<[title |-> <<"I", "n", "t", "r", "o", "d", "u", "c", "t", "i", "o", "n", " ", "t", "o", " ", "t", "h", "e", " ", "c", "o", "a", "s", "t", "a", "l", " ", "r", "e", "g", "i", "o", "n">>, page |-> 1],
           [title |-> <<"T", "h", "i", "n", "g", "s", " ", "t", "o", " ", "d", "o">>, page |-> 2],
           [title |-> <<"N", "i", "g", "h", "t", "l", "i", "f", "e", " ", "a", "n", "d", " ", "e", "n", "t", "e", "r", "t", "a", "i", "n", "m", "e", "n", "t", " ", "i", "n", " ", "t", "h", "e", " ", "o", "l", "d", " ", "t", "o", "w", "n">>, page |-> 3]>>,
        <<[text |-> <<"T", "r", "a", "v", "e", "l", " ", "a", "l", "o", "n", "g", " ", "t", "h", "e", " ", "l", "o", "n", "g", " ", "s", "a", "n", "d", "y", " ", "b", "e", "a", "c", "h", " ", "a", "n", "d", " ", "e", "n", "j", "o", "y", " ", "m", "a", "n", "y", " ", "c", "o", "a", "s", "t", "a", "l", " ", "w", "a", "l", "k", "s">>,
            page |-> 1],
           [text |-> <<"T", "h", "e", " ", "l", "o", "c", "a", "l", " ", "r", "e", "s", "t", "a", "u", "r", "a", "n", "t", "s", " ", "a", "n", "d", " ", "b", "a", "r", "s", " ", "s", "t", "a", "y", " ", "o", "p", "e", "n", " ", "u", "n", "t", "i", "l", " ", "l", "a", "t", "e", " ", "i", "n", " ", "t", "h", "e", " ", "e", "v", "e", "n", "i", "n", "g">>,
            page |-> 2],
           [text |-> <<"V", "i", "s", "i", "t", "o", "r", "s", " ", "e", "n", "j", "o", "y", " ", "w", "i", "n", "e", " ", "t", "a", "s", "t", "i", "n", "g", " ", "a", "n", "d", " ", "c", "o", "o", "k", "i", "n", "g", " ", "c", "l", "a", "s", "s", "e", "s", " ", "i", "n", " ", "t", "h", "e", " ", "h", "i", "l", "l", "s", " ", "n", "e", "a", "r", "b", "y">>,
            page |-> 3]>>)

DocResearch ==
    ProcessedDocument(<<"r", "e", "s", "e", "a", "r", "c", "h", "_", "p", "a", "p", "e", "r", ".", "p", "d", "f">>,
        [title |-> <<>>, subject |-> <<>>, pages |-> 4],
        <<>>,
        <<[text |-> <<"T", "h", "i", "s", " ", "s", "t", "u", "d", "y", " ", "p", "r", "e", "s", "e", "n", "t", "s", " ", "r", "e", "s", "e", "a", "r", "c", "h", " ", "d", "a", "t", "a", " ", "c", "o", "l", "l", "e", "c", "t", "e", "d", " ", "o", "v", "e", "r", " ", "t", "e", "n", " ", "y", "e", "a", "r", "s", ".", " ", "I", "t", " ", "i", "s", " ", "l", "o", "n", "g">>,
            page |-> 1],
           [text |-> <<"T", "h", "e", " ", "e", "x", "p", "e", "r", "i", "m", "e", "n", "t", " ", "c", "o", "n", "f", "i", "r", "m", "s", " ", "t", "h", "e", " ", "h", "y", "p", "o", "t", "h", "e", "s", "i", "s", " ", "u", "n", "d", "e", "r", " ", "e", "v", "e", "r", "y", " ", "c", "o", "n", "d", "i", "t", "i", "o", "n", " ", "w", "e", " ", "t", "r", "i", "e", "d">>,
            page |-> 2],
           [text |-> <<"W", "e", " ", "d", "e", "s", "c", "r", "i", "b", "e", " ", "t", "h", "e", " ", "m", "e", "t", "h", "o", "d", ".">>,
            page |-> 3],
           [text |-> <<"F", "u", "r", "t", "h", "e", "r", " ", "e", "x", "p", "e", "r", "i", "m", "e", "n", "t", "s", " ", "a", "r", "e", " ", "n", "e", "e", "d", "e", "d", " ", "b", "e", "f", "o", "r", "e", " ", "t", "h", "e", " ", "t", "h", "e", "o", "r", "y", " ", "c", "a", "n", " ", "b", "e", " ", "a", "c", "c", "e", "p", "t", "e", "d", " ", "f", "u", "l", "l", "y">>,
            page |-> 4]>>)

DocReport ==
    ProcessedDocument(<<"r", "e", "p", "o", "r", "t", ".", "p", "d", "f">>,
        [title |-> <<>>, subject |-> <<"Q", "u", "a", "r", "t", "e", "r", "l", "y", " ", "r", "e", "p", "o", "r", "t">>, pages |-> 2],
        <<[title |-> <<"M", "a", "r", "k", "e", "t", " ", "o", "v", "e", "r", "v", "i", "e", "w", " ", "a", "n", "d", " ", "f", "i", "n", "a", "n", "c", "i", "a", "l", " ", "p", "l", "a", "n", "n", "i", "n", "g", " ", "f", "o", "r", " ", "t", "h", "e", " ", "y", "e", "a", "r">>, page |-> 1],
           [title |-> <<"T", "h", "i", "r", "d", " ", "q", "u", "a", "r", "t", "e", "r">>, page |-> 2]>>,
        <<[text |-> <<"O", "u", "r", " ", "r", "e", "s", "e", "a", "r", "c", "h", " ", "s", "h", "o", "w", "s", " ", "t", "h", "a", "t", " ", "s", "a", "l", "e", "s", " ", "g", "r", "e", "w", " ", "i", "n", " ", "e", "v", "e", "r", "y", " ", "q", "u", "a", "r", "t", "e", "r", " ", "o", "f", " ", "t", "h", "e", " ", "y", "e", "a", "r">>,
            page |-> 1],
           [text |-> <<"T", "h", "e", " ", "c", "o", "m", "p", "a", "n", "y", " ", "r", "e", "s", "t", "a", "u", "r", "a", "n", "t", "s", " ", "a", "n", "d", " ", "h", "o", "t", "e", "l", "s", " ", "p", "e", "r", "f", "o", "r", "m", "e", "d", " ", "w", "e", "l", "l", " ", "t", "h", "i", "s", " ", "y", "e", "a", "r", " ", "a", "g", "a", "i", "n">>,
            page |-> 2]>>)

DocManual ==
    ProcessedDocument(<<"m", "a", "n", "u", "a", "l", ".", "p", "d", "f">>,
        [title |-> <<>>, subject |-> <<>>, pages |-> 2],
        <<[title |-> <<"C", "r", "e", "a", "t", "e", " ", "a", "n", "d", " ", "e", "x", "p", "o", "r", "t", " ", "f", "o", "r", "m", "s", " ", "w", "i", "t", "h", " ", "t", "h", "e", " ", "e", "d", "i", "t", "o", "r", " ", "q", "u", "i", "c", "k", "l", "y">>, page |-> 1],
           [title |-> <<"T", "r", "o", "u", "b", "l", "e", "s", "h", "o", "o", "t", "i", "n", "g">>, page |-> 2]>>,
        <<[text |-> <<"S", "e", "l", "e", "c", "t", " ", "t", "h", "e", " ", "t", "o", "o", "l", " ", " ", " ", "t", "h", "e", "n", " ", "c", "h", "o", "o", "s", "e", " ", "t", "h", "e", " ", "~", "o", "p", "t", "i", "o", "n", "~", " ", "y", "o", "u", " ", "n", "e", "e", "d", "\n", "f", "r", "o", "m", " ", "t", "h", "e", " ", "l", "i", "s", "t">>,
            page |-> 1]>>)

\* A document from which nothing could be extracted.
DocEmpty ==
    ProcessedDocument(<<"e", "m", "p", "t", "y", ".", "p", "d", "f">>, [title |-> <<>>, subject |-> <<>>, pages |-> 0],
                      <<>>, <<>>)

\* A document whose text holds more HR keywords than keywords of any other
\* persona.
DocOnboarding ==
    ProcessedDocument(<<"o", "n", "b", "o", "a", "r", "d", "i", "n", "g", ".", "p", "d", "f">>, [title |-> <<>>, subject |-> <<>>, pages |-> 1],
                      <<>>,
                      <<[text |-> <<"E", "m", "p", "l", "o", "y", "e", "e", " ", "o", "n", "b", "o", "a", "r", "d", "i", "n", "g", " ", "n", "e", "e", "d", "s", " ", "a", "n", " ", "a", "p", "p", "r", "o", "v", "a", "l", " ", "w", "o", "r", "k", "f", "l", "o", "w", " ", "i", "n", " ", "h", "u", "m", "a", "n", " ", "r", "e", "s", "o", "u", "r", "c", "e", "s">>,
                         page |-> 1]>>)

DocBroken == FailedDocument(<<"b", "r", "o", "k", "e", "n", ".", "p", "d", "f">>)

Documents == {DocTravel, DocResearch, DocReport, DocManual, DocBroken}

\* The entries of results for the uploads of one collection, a file name
\* uploaded twice included.  A request without uploads is answered at lines
\* 161-162, before results exists.
Collections == SeqsUpTo(Documents, MaxDocs) \ {<<>>}

(***************************************************************************)
(* Results only a caller of the formatter other than main.py can pass: a   *)
(* document without file name, a section whose title is a number, and      *)
(* persona analyses whose persona_type is "auto" or empty.                 *)
(***************************************************************************)
\* No file name; the first title is longer than 30 characters, the text
\* longer than 200 and without any keyword.
DocNameless ==
    ProcessedDocument(NoneValue, [title |-> <<>>, subject |-> <<>>, pages |-> 1],
        <<[title |-> <<"I", "n", "t", "e", "r", "n", "a", "t", "i", "o", "n", "a", "l", "i", "z", "a", "t", "i", "o", "n", " ", "c", "o", "n", "s", "i", "d", "e", "r", "a", "t", "i", "o", "n", "s", " ", "r", "e", "g", "a", "r", "d", "i", "n", "g", " ", "d", "e", "p", "l", "o", "y", "m", "e", "n", "t">>, page |-> 1],
          [title |-> <<"S", "u", "m", "m", "a", "r", "y">>, page |-> 2]>>,
        <<[text |-> <<"T", "h", "e", " ", "h", "a", "r", "b", "o", "u", "r", " ", "w", "a", "k", "e", "s", " ", "s", "l", "o", "w", "l", "y", " ", "b", "e", "f", "o", "r", "e", " ", "d", "a", "w", "n", " ", "w", "h", "i", "l", "e", " ", "g", "r", "e", "y", " ", "g", "u", "l", "l", "s", " ", "c", "i", "r", "c", "l", "e", " ", "a", "b", "o", "v", "e", " ", "t", "h", "e", " ", "q", "u", "i", "e", "t", " ", "w", "a", "t", "e", "r", " ", "a", "n", "d", " ", "o", "l", "d", " ", "b", "o", "a", "t", "s", " ", "l", "e", "a", "n", " ", "a", "g", "a", "i", "n", "s", "t", " ", "t", "h", "e", " ", "w", "o", "r", "n", " ", "s", "t", "o", "n", "e", " ", "q", "u", "a", "y", " ", "w", "h", "e", "r", "e", " ", "n", "o", "b", "o", "d", "y", " ", "h", "a", "s", " ", "w", "a", "l", "k", "e", "d", " ", "s", "i", "n", "c", "e", " ", "t", "h", "e", " ", "s", "t", "o", "r", "m", " ", "c", "a", "m", "e", " ", "t", "h", "r", "o", "u", "g", "h", " ", "l", "a", "s", "t", " ", "w", "i", "n", "t", "e", "r", " ", "a", "n", "d", " ", "l", "e", "f", "t", " ", "t", "h", "e", " ", "n", "a", "r", "r", "o", "w", " ", "l", "a", "n", "e", "s", " ", "e", "m", "p", "t", "y", " ", "f", "o", "r", " ", "m", "a", "n", "y", " ", "l", "o", "n", "g", " ", "w", "e", "e", "k", "s", " ", "a", "f", "t", "e", "r", "w", "a", "r", "d", "s">>,
            page |-> 1]>>)

DocNumbered ==
    ProcessedDocument(<<"n", "u", "m", "b", "e", "r", "e", "d", ".", "p", "d", "f">>, [title |-> <<>>, subject |-> <<>>, pages |-> 1],
        <<[title |-> NumberValue, page |-> 1]>>,
        <<[text |-> <<"T", "h", "e", " ", "e", "x", "p", "e", "r", "i", "m", "e", "n", "t", " ", "c", "o", "n", "f", "i", "r", "m", "s", " ", "t", "h", "e", " ", "h", "y", "p", "o", "t", "h", "e", "s", "i", "s", " ", "u", "n", "d", "e", "r", " ", "e", "v", "e", "r", "y", " ", "c", "o", "n", "d", "i", "t", "i", "o", "n", " ", "w", "e", " ", "t", "r", "i", "e", "d">>,
            page |-> 1]>>)

WithPersonaType(document, recorded) ==
    [document EXCEPT !.result.persona_analysis.persona_type = recorded]

DocAuto ==
    WithPersonaType(
        ProcessedDocument(<<"a", "u", "t", "o", ".", "p", "d", "f">>, [title |-> <<>>, subject |-> <<>>, pages |-> 1], <<>>,
            <<[text |-> <<"W", "e", " ", "d", "e", "s", "c", "r", "i", "b", "e", " ", "t", "h", "e", " ", "m", "e", "t", "h", "o", "d", " ", "a", "n", "d", " ", "t", "h", "e", " ", "d", "a", "t", "a", " ", "o", "f", " ", "t", "h", "e", " ", "s", "t", "u", "d", "y", " ", "i", "n", " ", "t", "h", "i", "s", " ", "p", "a", "p", "e", "r", " ", "h", "e", "r", "e">>,
            page |-> 1]>>),
        AutoSlug)

DocBlank ==
    WithPersonaType(
        ProcessedDocument(<<"b", "l", "a", "n", "k", ".", "p", "d", "f">>, [title |-> <<>>, subject |-> <<>>, pages |-> 1], <<>>,
            <<[text |-> <<"W", "e", " ", "d", "e", "s", "c", "r", "i", "b", "e", " ", "t", "h", "e", " ", "m", "e", "t", "h", "o", "d", " ", "a", "n", "d", " ", "t", "h", "e", " ", "d", "a", "t", "a", " ", "o", "f", " ", "t", "h", "e", " ", "s", "t", "u", "d", "y", " ", "i", "n", " ", "t", "h", "i", "s", " ", "p", "a", "p", "e", "r", " ", "h", "e", "r", "e">>,
            page |-> 1]>>),
        <<>>)

OddDocuments == {DocNameless, DocNumbered, DocAuto, DocBlank}

MaxOddDocs == 2

\* The short lists of results that hold odd documents, next to documents
\* detected as travel_planner and as general.
OddCollections ==
    {rs \in SeqsUpTo(OddDocuments \cup {DocTravel, DocManual}, MaxOddDocs) :
        \E n \in 1..Len(rs) : rs[n] \in OddDocuments}

PersonaConfigs ==
    {[kind |-> "none", persona_type |-> <<>>],
     [kind |-> "missing", persona_type |-> <<>>],
     [kind |-> "other", persona_type |-> <<>>],
     [kind |-> "str", persona_type |-> AutoSlug],
     [kind |-> "str", persona_type |-> GeneralSlug],
     [kind |-> "str", persona_type |-> <<"t", "r", "a", "v", "e", "l", "_", "p", "l", "a", "n", "n", "e", "r">>],
     [kind |-> "str", persona_type |-> <<"H", "R", " ", "P", "r", "o", "f", "e", "s", "s", "i", "o", "n", "a", "l">>]}

SingleRequests ==
    {[NoRequest EXCEPT !.op = "single", !.filename = d.filename,
                       !.metadata = d.result.metadata,
                       !.structure = d.result.structure,
                       !.content = d.result.content,
                       !.persona_config = c] :
        d \in {DocTravel, DocResearch, DocReport, DocManual, DocEmpty,
                DocOnboarding, DocNumbered},
        c \in PersonaConfigs}

CollectionRequests ==
    {[NoRequest EXCEPT !.op = "collection", !.results = rs] :
        rs \in Collections \cup OddCollections}

CallFormatSinglePdfOutput ==
    /\ fpc = "start"
    /\ request.op = "single"
    /\ report' = FormatSinglePdfOutput(request.filename, request.metadata,
                                       request.structure, request.content,
                                       request.persona_config)
    /\ fpc' = "done"
    /\ UNCHANGED <<request, enhanced_title, title_again, enhanced_text, merged>>
    /\ UNCHANGED pdfVars
    /\ UNCHANGED personaVars
    /\ UNCHANGED serverVars

CallFormatCollectionOutput ==
    /\ fpc = "start"
    /\ request.op = "collection"
    /\ merged' = IF EnhancementRaises(request.results) THEN NoMerged
                  ELSE MergedLists(request.results)
    /\ report' = IF EnhancementRaises(request.results)
                  THEN FormatErrorOutput(CollectionName)
                  ELSE AssembleCollection(request.results, merged')
    /\ fpc' = "done"
    /\ UNCHANGED <<request, enhanced_title, title_again, enhanced_text>>
    /\ UNCHANGED pdfVars
    /\ UNCHANGED personaVars
    /\ UNCHANGED serverVars

(***************************************************************************)
(* Calls of _enhance_section_title.                                        *)
(***************************************************************************)
DocNames ==
    {<<"r", "e", "p", "o", "r", "t", ".", "p", "d", "f">>, <<"t", "r", "a", "v", "e", "l", "_", "g", "u", "i", "d", "e", ".", "p", "d", "f">>, <<"t", "r", "a", "v", "e", "l", "_", "g", "u", "i", "d", "e">>, <<"n", "o", "t", "e", "s", ".", "t", "x", "t">>}

TitleCoastal == <<"A", " ", "v", "e", "r", "y", " ", "l", "o", "n", "g", " ", "s", "e", "c", "t", "i", "o", "n", " ", "h", "e", "a", "d", "i", "n", "g", " ", "a", "b", "o", "u", "t", " ", "c", "o", "a", "s", "t", "a", "l", " ", "a", "c", "t", "i", "v", "i", "t", "i", "e", "s", " ", "a", "n", "d", " ", "b", "e", "a", "c", "h", "e", "s">>

RawTitles ==
    {<<"Q", "3">>, <<" ", "Q", "3", " ">>, <<"O", "v", "e", "r", "v", "i", "e", "w">>, TitleCoastal,
     <<"I", "n", "t", "e", "r", "n", "a", "t", "i", "o", "n", "a", "l", "i", "z", "a", "t", "i", "o", "n", " ", "c", "o", "n", "s", "i", "d", "e", "r", "a", "t", "i", "o", "n", "s", " ", "r", "e", "g", "a", "r", "d", "i", "n", "g", " ", "d", "e", "p", "l", "o", "y", "m", "e", "n", "t">>,
     <<"C", "r", "e", "a", "t", "e", " ", "i", "n", "t", "e", "r", "n", "a", "t", "i", "o", "n", "a", "l", "i", "z", "a", "t", "i", "o", "n", "-", "a", "n", "d", "-", "l", "o", "c", "a", "l", "i", "z", "a", "t", "i", "o", "n", " ", "b", "u", "n", "d", "l", "e", "s">>,
     <<"S", "h", "o", "r", "t", " ", "s", "t", "a", "r", "t", ".", " ", "T", "h", "e", "n", " ", "a", " ", "m", "u", "c", "h", " ", "l", "o", "n", "g", "e", "r", " ", "c", "o", "n", "t", "i", "n", "u", "a", "t", "i", "o", "n", " ", "f", "o", "l", "l", "o", "w", "s">>,
     <<"u", "n", "b", "r", "o", "k", "e", "n", "w", "o", "r", "d", "t", "h", "a", "t", "i", "s", "l", "o", "n", "g", "e", "r", "t", "h", "a", "n", "t", "h", "i", "r", "t", "y", "c", "h", "a", "r", "a", "c", "t", "e", "r", "s">>,
     <<"O", "p", "t", "i", "o", "n", "s", " ", "f", "o", "r", " ", "i", "m", "p", "o", "r", "t", " ", "a", "n", "d", " ", "f", "o", "r", " ", "p", "a", "g", "e", "-", "e", "x", "p", "o", "r", "t">>}

\* A call made with a document name, a title or a text that is no string.
DocNamesOrNone == DocNames \cup {NoneValue}

NoStrings == {NoneValue, NumberValue}

EnhanceTitleRequests ==
    {[NoRequest EXCEPT !.op = "enhance_title", !.document_name = d,
                       !.original_title = t] :
        d \in DocNamesOrNone, t \in RawTitles \cup NoStrings}

TextBoilerplate ==
    <<"T", "h", "i", "s", " ", "d", "o", "c", "u", "m", "e", "n", "t", " ", "c", "o", "n", "t", "a", "i", "n", "s", " ", "v", "a", "l", "u", "a", "b", "l", "e", " ", "i", "n", "f", "o", "r", "m", "a", "t", "i", "o", "n", " ", "a", "n", "d", " ", "i", "n", "s", "i", "g", "h", "t", "s", ".", " ", "S", "e", "l", "e", "c", "t", " ", "t", "h", "e", " ", "t", "o", "o", "l", " ", "f", "r", "o", "m", " ", "t", "h", "e", " ", "l", "i", "s", "t", " ", "o", "f", " ", "o", "p", "t", "i", "o", "n", "s">>

TextThreeSentences ==
    <<"T", "h", "e", " ", "f", "i", "r", "s", "t", " ", "l", "o", "n", "g", " ", "s", "e", "n", "t", "e", "n", "c", "e", " ", "m", "e", "n", "t", "i", "o", "n", "s", " ", "a", " ", "t", "o", "o", "l", ".", " ", "T", "h", "e", " ", "s", "e", "c", "o", "n", "d", " ", "l", "o", "n", "g", " ", "s", "e", "n", "t", "e", "n", "c", "e", " ", "m", "e", "n", "t", "i", "o", "n", "s", " ", "a", " ", "f", "e", "a", "t", "u", "r", "e", ".", " ", "T", "h", "e", " ", "t", "h", "i", "r", "d", " ", "l", "o", "n", "g", " ", "s", "e", "n", "t", "e", "n", "c", "e", " ", "m", "e", "n", "t", "i", "o", "n", "s", " ", "a", "n", " ", "o", "p", "t", "i", "o", "n", ".">>

TextShortForm ==
    <<"A", " ", "f", "o", "r", "m", ".", " ", "A", " ", "l", "o", "n", "g", " ", "p", "l", "a", "i", "n", " ", "s", "e", "n", "t", "e", "n", "c", "e", " ", "t", "h", "a", "t", " ", "h", "a", "s", " ", "n", "o", " ", "k", "e", "y", "w", "o", "r", "d", " ", "i", "n", "s", "i", "d", "e", " ", "w", "h", "a", "t", "s", "o", "e", "v", "e", "r", " ", "o", "k", "a", "y">>

RawTexts ==
    {<<"E", "d", "i", "t", " ", "t", "h", "e", " ", "f", "i", "l", "e">>, <<" ", "T", "i", "p", "s", " ", "f", "o", "r", " ", "t", "h", "e", " ", "j", "o", "u", "r", "n", "e", "y", " ", " ">>, <<"s", "h", "o", "r", "t">>,
     TextThreeSentences, TextBoilerplate, TextShortForm,
     <<"U", "s", "e", " ", "t", "h", "e", " ", "m", "a", "i", "n", " ", "f", "o", "r", "m", " ", "t", "o", " ", "s", "e", "l", "e", "c", "t", " ", "y", "o", "u", "r", " ", "o", "p", "t", "i", "o", "n", "s", ".", " ", "I", "t", " ", "i", "s", " ", "p", "l", "a", "i", "n", " ", "a", "n", "d", " ", "s", "i", "m", "p", "l", "e", " ", "t", "o", " ", "u", "s", "e">>,
     <<"B", "i", "g", " ", "c", "i", "t", "y", ".", " ", "A", " ", "l", "o", "n", "g", " ", "s", "e", "n", "t", "e", "n", "c", "e", " ", "t", "h", "a", "t", " ", "h", "a", "s", " ", "n", "o", " ", "k", "e", "y", "w", "o", "r", "d", " ", "i", "n", "s", "i", "d", "e", " ", "w", "h", "a", "t", "s", "o", "e", "v", "e", "r", " ", "o", "k", "a", "y">>,
     <<"n", "o", " ", "p", "e", "r", "i", "o", "d", "s", " ", "a", "n", "d", " ", "n", "o", " ", "k", "e", "y", "w", "o", "r", "d", "s", " ", "h", "e", "r", "e", " ", "b", "u", "t", " ", "l", "o", "n", "g", " ", "e", "n", "o", "u", "g", "h", " ", "t", "o", " ", "p", "a", "s", "s", " ", "a", "n", "y", " ", "t", "h", "r", "e", "s", "h", "o", "l", "d", " ", "w", "e", " ", "h", "a", "v", "e">>,
     Letters(210)}

EnhanceTextRequests ==
    {[NoRequest EXCEPT !.op = "enhance_text", !.document_name = d,
                       !.original_text = t] :
        d \in DocNamesOrNone, t \in RawTexts \cup NoStrings}

InitFormatter ==
    /\ PdfIdle
    /\ PersonaIdle
    /\ ServerIdle
    /\ fpc = "start"
    /\ request \in EnhanceTitleRequests \cup EnhanceTextRequests
                    \cup SingleRequests \cup CollectionRequests
    /\ enhanced_title = <<>>
    /\ title_again = <<>>
    /\ enhanced_text = <<>>
    /\ merged = NoMerged
    /\ report = NoReport

CallEnhanceSectionTitle ==
    /\ fpc = "start"
    /\ request.op = "enhance_title"
    /\ LET returned == EnhanceSectionTitle(request.document_name,
                                            request.original_title)
       IN  IF returned = Raised
           THEN fpc' = "raised" /\ UNCHANGED enhanced_title
           ELSE fpc' = "done" /\ enhanced_title' = returned
    /\ UNCHANGED <<request, title_again, enhanced_text, merged, report>>
    /\ UNCHANGED pdfVars
    /\ UNCHANGED personaVars
    /\ UNCHANGED serverVars

\* Lines 278-284: the title a first call returned is enhanced once more.
CallEnhanceSectionTitleAgain ==
    /\ fpc = "done"
    /\ request.op = "enhance_title"
    /\ title_again' = EnhanceSectionTitle(request.document_name, enhanced_title)
    /\ fpc' = "again"
    /\ UNCHANGED <<request, enhanced_title, enhanced_text, merged, report>>
    /\ UNCHANGED pdfVars
    /\ UNCHANGED personaVars
    /\ UNCHANGED serverVars

CallEnhanceAnalysisText ==
    /\ fpc = "start"
    /\ request.op = "enhance_text"
    /\ LET returned == EnhanceAnalysisText(request.document_name,
                                            request.original_text)
       IN  IF returned = Raised
           THEN fpc' = "raised" /\ UNCHANGED enhanced_text
           ELSE fpc' = "done" /\ enhanced_text' = returned
    /\ UNCHANGED <<request, enhanced_title, title_again, merged, report>>
    /\ UNCHANGED pdfVars
    /\ UNCHANGED personaVars
    /\ UNCHANGED serverVars

NextFormatter ==
    \/ CallEnhanceSectionTitle
    \/ CallEnhanceSectionTitleAgain
    \/ CallEnhanceAnalysisText
    \/ CallFormatSinglePdfOutput
    \/ CallFormatCollectionOutput

SpecFormatter == InitFormatter /\ [][NextFormatter]_vars

(***************************************************************************)
(* Properties of _enhance_section_title.                                   *)
(***************************************************************************)
EnhancedTitleReturned == fpc = "done" /\ request.op = "enhance_title"

\* The raw title is at most 30 characters long and holds none of the generic
\* words, letter case ignored.
ShortAndSpecific(raw) ==
    /\ Len(raw) <= 30
    /\ \A g \in GenericWords :
        \A i \in 1..Len(raw) : ~OccursIgnoringCase(raw, g, i)

\* s is t without its leading and trailing whitespace.
IsStripped(s, t) ==
    \E a \in 1..(Len(t) + 1) : \E b \in 0..Len(t) :
        /\ s = SubSeq(t, a, b)
        /\ \A i \in 1..(a - 1) : IsSpace(t[i])
        /\ \A i \in (b + 1)..Len(t) : IsSpace(t[i])
        /\ s # <<>> => ~IsSpace(s[1]) /\ ~IsSpace(s[Len(s)])

\* C11 as stated: a raw title of at most 30 characters holding no generic
\* word is returned unchanged, whatever the document name.
C11_ReturnedUnchanged ==
    (EnhancedTitleReturned /\ ShortAndSpecific(request.original_title))
    => enhanced_title = request.original_title

\* C11 amended: a raw title of at most 30 characters holding no generic word
\* is returned with its leading and trailing whitespace removed (unchanged
\* when it has none), whatever the document name.
C11_ReturnedStripped ==
    (EnhancedTitleReturned /\ ShortAndSpecific(request.original_title))
    => IsStripped(enhanced_title, request.original_title)

C11_Witness ==
    /\ EnhancedTitleReturned
    /\ request.document_name = <<"r", "e", "p", "o", "r", "t", ".", "p", "d", "f">>
    /\ request.original_title = <<" ", "Q", "3", " ">>
    /\ enhanced_title = <<"Q", "3">>

\* C12: enhance_title("travel_guide.pdf", "A very long section heading about
\* coastal activities and beaches") returns "Coastal activities".
C12_CoastalActivities ==
    (/\ EnhancedTitleReturned
     /\ request.document_name = <<"t", "r", "a", "v", "e", "l", "_", "g", "u", "i", "d", "e", ".", "p", "d", "f">>
     /\ request.original_title = TitleCoastal)
    => enhanced_title = <<"C", "o", "a", "s", "t", "a", "l", " ", "a", "c", "t", "i", "v", "i", "t", "i", "e", "s">>

\* C13: every title enhance_title returns is at most 30 characters long.
C13_TitleAtMost30 ==
    EnhancedTitleReturned => Len(enhanced_title) <= 30

(***************************************************************************)
(* Properties of format_collection_output.                                 *)
(***************************************************************************)
CollectionReported == fpc = "done" /\ request.op = "collection"

\* kept holds the first entries of all, at most limit of them, each with the
\* document, the page and (for sections) the rank it has in all.
IsFirstEntriesOf(kept, all, limit) ==
    /\ Len(kept) = Min(limit, Len(all))
    /\ \A i \in 1..Len(kept) :
        /\ kept[i].document = all[i].document
        /\ kept[i].page_number = all[i].page_number

\* The processed documents of the request none of whose paragraphs is in
\* the report although the merged list holds one.
ExcludedFromAnalysis ==
    {r \in {request.results[i] : i \in 1..Len(request.results)} :
        /\ \E i \in 1..Len(merged.analysis) : merged.analysis[i].document = r.filename
        /\ \A i \in 1..Len(report.subsection_analysis) :
              report.subsection_analysis[i].document # r.filename}

\* C14: a collection report holds at most 5 sections and at most 5 analyses,
\* which are the first 5 entries of the lists merged over all documents.
C14_CollectionCap ==
    CollectionReported =>
        /\ Len(report.extracted_sections) <= 5
        /\ Len(report.subsection_analysis) <= 5
        /\ IsFirstEntriesOf(report.extracted_sections, merged.sections, 5)
        /\ IsFirstEntriesOf(report.subsection_analysis, merged.analysis, 5)
        /\ \A i \in 1..Len(report.extracted_sections) :
              report.extracted_sections[i].importance_rank
                  = merged.sections[i].importance_rank

\* Both merged lists are longer than 5 and a later document is left out of
\* the analyses altogether.
C14_Witness ==
    /\ CollectionReported
    /\ Len(merged.sections) > 5
    /\ Len(merged.analysis) > 5
    /\ Len(report.extracted_sections) = 5
    /\ Len(report.subsection_analysis) = 5
    /\ ExcludedFromAnalysis # {}


(***************************************************************************)
(* Properties of the reports of both paths.                                *)
(***************************************************************************)
SingleReported == fpc = "done" /\ request.op = "single"

RanksConsecutive(sections) ==
    \A i \in 1..Len(sections) : sections[i].importance_rank = i

\* C15: in every report, of a single document or of a collection, the
\* importance ranks of extracted_sections read in order are 1, 2, ...,
\* len(extracted_sections), also when candidates were skipped.
C15_RanksConsecutive ==
    (SingleReported \/ CollectionReported)
        => RanksConsecutive(report.extracted_sections)


\* The number of entries of a list that belong to the document.
EntriesOf(entries, filename) ==
    Cardinality({i \in 1..Len(entries) : entries[i].document = filename})

\* The position in the request of the document every entry of a list comes
\* from, 0 for none.  The entries are read in order: an entry stays with
\* the document of the entry before it when it has its file name and a
\* later page, and goes to the next document of its file name otherwise;
\* k and page are the position and the page of the entry before.
RECURSIVE SourcesFrom(_, _, _, _)
SourcesFrom(entries, i, k, page) ==
    IF i > Len(entries) THEN <<>>
    ELSE LET e == entries[i]
             stays == /\ k > 0
                      /\ request.results[k].filename = e.document
                      /\ e.page_number > page
             later == {j \in (k + 1)..Len(request.results) :
                          request.results[j].filename = e.document}
         IN  IF stays THEN <<k>> \o SourcesFrom(entries, i + 1, k, e.page_number)
             ELSE IF later = {} THEN <<0>> \o SourcesFrom(entries, i + 1, k, page)
             ELSE <<SetMin(later)>>
                      \o SourcesFrom(entries, i + 1, SetMin(later), e.page_number)

Sources(entries) == SourcesFrom(entries, 1, 0, 0)

\* The number of entries that come from the document at position k.
EntriesFrom(entries, k) ==
    Cardinality({i \in 1..Len(entries) : Sources(entries)[i] = k})

AtMostTwoEach(entries) ==
    \A k \in 1..Len(request.results) :
        /\ EntriesFrom(entries, k) <= 2
        /\ ~IsProcessed(request.results[k]) => EntriesFrom(entries, k) = 0

\* C16: in the collection path a processed document contributes at most 2
\* sections and at most 2 analyses, through the structure sections, the
\* preferred paragraphs, the general paragraphs and the two fallback loops;
\* a document that is not processed contributes nothing.  A file name
\* supplied twice is two documents.
C16_TwoPerDocument ==
    CollectionReported =>
        /\ AtMostTwoEach(merged.sections)
        /\ AtMostTwoEach(merged.analysis)
        /\ AtMostTwoEach(report.extracted_sections)
        /\ AtMostTwoEach(report.subsection_analysis)
        /\ \A k \in 1..Len(request.results) :
              ~IsProcessed(request.results[k]) =>
                  /\ EntriesOf(merged.sections, request.results[k].filename) = 0
                  /\ EntriesOf(merged.analysis, request.results[k].filename) = 0

\* A document with three sections and three long paragraphs, supplied
\* twice, gives two of each both times, next to a failed document; and a
\* collection without any section takes two sections from the paragraphs
\* of a document.
C16_Witness ==
    /\ CollectionReported
    /\ \/ /\ \E j \in 1..Len(request.results) : \E k \in 1..Len(request.results) :
                /\ j < k
                /\ request.results[j] = request.results[k]
                /\ IsProcessed(request.results[k])
                /\ Len(request.results[k].result.structure.sections) > 2
                /\ Len(RefinedBlocks(request.results[k].result.content.text_content)) > 2
                /\ EntriesFrom(merged.sections, j) = 2
                /\ EntriesFrom(merged.sections, k) = 2
                /\ EntriesFrom(merged.analysis, j) = 2
                /\ EntriesFrom(merged.analysis, k) = 2
                /\ EntriesOf(report.extracted_sections, request.results[k].filename) = 4
          /\ \E k \in 1..Len(request.results) : ~IsProcessed(request.results[k])
       \/ /\ \A k \in 1..Len(request.results) :
                request.results[k].result.structure.sections = <<>>
          /\ \E k \in 1..Len(request.results) :
                /\ Len(request.results[k].result.content.text_content) > 2
                /\ EntriesFrom(report.extracted_sections, k) = 2


\* The entries follow the order of the documents, and those of one document
\* the order of its pages, which is the order in which extraction produced
\* its sections and its paragraphs: every entry comes from a document of
\* its file name at or behind the document of the entry before it.
InSupplyOrder(entries) ==
    \A i \in 1..Len(entries) : Sources(entries)[i] # 0

DocumentsIn(entries) == {entries[i].document : i \in 1..Len(entries)}

\* C17: the sections and the analyses of a collection report are in the
\* order in which the documents were supplied and, within a document, in
\* the order of extraction; the report lists are the merged lists cut in
\* that order, so no entry of a later document precedes one of an earlier.
C17_SupplyOrder ==
    CollectionReported =>
        /\ InSupplyOrder(merged.sections)
        /\ InSupplyOrder(merged.analysis)
        /\ InSupplyOrder(report.extracted_sections)
        /\ InSupplyOrder(report.subsection_analysis)

\* A truncated report with entries of three documents in both lists, two
\* of them from one document.
C17_Witness ==
    /\ CollectionReported
    /\ Len(merged.sections) > 5
    /\ Len(merged.analysis) > 5
    /\ Cardinality(DocumentsIn(report.extracted_sections)) >= 3
    /\ Cardinality(DocumentsIn(report.subsection_analysis)) >= 3
    /\ \E d \in DocumentsIn(report.extracted_sections) :
          /\ EntriesOf(report.extracted_sections, d) = 2
          /\ EntriesOf(report.subsection_analysis, d) = 2


\* The value recorded as persona_type in the persona analysis of every
\* processed document of the request, in the order of the documents;
\* "general" for an analysis without persona_type.
DetectedInRequest ==
    Bind(SelectSeq(request.results, LAMBDA r :
             IsProcessed(r) /\ r.result.persona_analysis.present),
         LAMBDA rs :
            ToTuple([i \in 1..Len(rs) |->
                IF rs[i].result.persona_analysis.has_type
                THEN rs[i].result.persona_analysis.persona_type
                ELSE GeneralSlug]))

\* The recorded values that are counted: those neither empty nor "auto".
\* "general" is a value like any other.
CountedInRequest ==
    SelectSeq(DetectedInRequest, LAMBDA v : v # <<>> /\ v # AutoSlug)

DetectedCount(p) ==
    Cardinality({i \in 1..Len(CountedInRequest) : CountedInRequest[i] = p})

\* The counted values recorded most often.
MostFrequent ==
    {CountedInRequest[i] : i \in
        {i \in 1..Len(CountedInRequest) :
            \A j \in 1..Len(CountedInRequest) :
                DetectedCount(CountedInRequest[j])
                    <= DetectedCount(CountedInRequest[i])}}

\* The one of them that was counted first.
FirstMostFrequent ==
    CountedInRequest[CHOOSE i \in 1..Len(CountedInRequest) :
        /\ CountedInRequest[i] \in MostFrequent
        /\ \A j \in 1..(i - 1) : CountedInRequest[j] \notin MostFrequent]

\* format_collection_output returned the collection report, not the error
\* report of its handler.
CollectionAssembled == CollectionReported /\ ~report.metadata.error

\* C18 as stated: the persona of a collection report is the most frequent
\* detected persona, and "general" when none was detected or on a tie.
C18_GeneralOnTie ==
    CollectionAssembled =>
        report.metadata.persona =
            FormatPersona(IF Cardinality(MostFrequent) = 1
                          THEN FirstMostFrequent ELSE GeneralSlug)

\* C18, amended: the persona of a collection report is the value recorded
\* most often for the processed documents, "general" counting like every
\* other value and empty and "auto" values not counting; on a tie it is
\* the one of the tied values that was counted first; it is "general" when
\* no value counts.
C18_FirstSeenOnTie ==
    CollectionAssembled =>
        report.metadata.persona =
            FormatPersona(IF CountedInRequest = <<>>
                          THEN GeneralSlug ELSE FirstMostFrequent)

\* "general" and another persona were recorded equally often, the other
\* one first: the report names the other one.
C18_Witness ==
    /\ CollectionAssembled
    /\ Cardinality(MostFrequent) > 1
    /\ GeneralSlug \in MostFrequent
    /\ CountedInRequest[1] # GeneralSlug
    /\ report.metadata.persona = FormatPersona(CountedInRequest[1])
    /\ report.metadata.persona # FormatPersona(GeneralSlug)


\* C19: in every report job_to_be_done is the entry of the table of job
\* descriptions for the display name written to metadata.persona, and the
\* generic description only when that name is not a key of the table.
C19_JobOfDisplayPersona ==
    ((SingleReported \/ CollectionReported) /\ ~report.metadata.error)
        => report.metadata.job_to_be_done
              = GetJobDescriptionForPersona(report.metadata.persona)


\* C20: when the structure of a single document has sections, the report
\* uses up to the first 5 of them and every section_title is the enhanced
\* title of the raw title.
C20_StructureTitlesEnhanced ==
    (SingleReported /\ ~report.metadata.error /\ request.structure.sections # <<>>)
        => /\ Len(report.extracted_sections)
                = Min(5, Len(request.structure.sections))
           /\ \A i \in 1..Len(report.extracted_sections) :
                /\ report.extracted_sections[i].page_number
                      = request.structure.sections[i].page
                /\ report.extracted_sections[i].section_title
                      = EnhanceSectionTitle(request.filename,
                                            request.structure.sections[i].title)


(***************************************************************************)
(* Two /process-collection requests served by one event loop.  A request   *)
(* runs from one await to the next without interruption: the handler       *)
(* awaits file.read() once for every upload, right after it has opened the *)
(* destination file.                                                       *)
(***************************************************************************)
MaxClock == 2
MaxFiles == 2

MAX_FILE_SIZE == 52428800

UploadFiles ==
    {[filename |-> <<"a", ".", "p", "d", "f">>, size |-> 1],
     [filename |-> <<"B", ".", "P", "D", "F">>, size |-> 1],
     [filename |-> <<"n", "o", "t", "e", "s", ".", "t", "x", "t">>, size |-> 1],
     [filename |-> <<"h", "u", "g", "e", ".", "p", "d", "f">>, size |-> MAX_FILE_SIZE + 1]}

UploadLists == SeqsUpTo(UploadFiles, MaxFiles)

EndsWith(t, suffix) ==
    /\ Len(t) >= Len(suffix)
    /\ SubSeq(t, Len(t) - Len(suffix) + 1, Len(t)) = suffix

\* The validation at the head of the handler raises: no file, a name that
\* does not end in ".pdf", or a file over the size limit.
Rejected(files) ==
    \/ files = <<>>
    \/ \E i \in 1..Len(files) :
          \/ ~EndsWith(Lower(files[i].filename), <<".", "p", "d", "f">>)
          \/ files[i].size > MAX_FILE_SIZE

\* f"collection_{task_id}_analysis_{int(time.time())}.json", the task_id
\* being f"task_{int(time.time())}".
CollectionOutputName(task, seconds) ==
    <<"c", "o", "l", "l", "e", "c", "t", "i", "o", "n", "_", "t", "a", "s", "k", "_">> \o Decimal(task) \o <<"_", "a", "n", "a", "l", "y", "s", "i", "s", "_">> \o Decimal(seconds)
        \o <<".", "j", "s", "o", "n">>

\* A file of the directory input: the file of the name in the directory of
\* the task, or in input itself when dir is NoTask; open(os.path.join(
\* collection_path, file.filename), "wb") by request r.
Opened(r, task, upload) == [dir |-> task, filename |-> upload.filename, by |-> r]

\* The clock reaches the next whole second.
Tick ==
    /\ now < MaxClock
    /\ now' = now + 1
    /\ UNCHANGED <<cpc, uploads, task_id, stored, saved>>
    /\ UNCHANGED pdfVars
    /\ UNCHANGED personaVars
    /\ UNCHANGED formatterVars

\* The handler from its start to the first await: validation, task_id,
\* makedirs(collection_path, exist_ok=True) and the open of the first file.
ReceiveCollection(r) ==
    /\ cpc[r].state = "idle"
    /\ \E files \in UploadLists :
          IF Rejected(files)
          THEN /\ cpc' = [cpc EXCEPT ![r] = [state |-> "failed", index |-> 0]]
               /\ UNCHANGED <<uploads, task_id, stored>>
          ELSE /\ task_id' = [task_id EXCEPT ![r] = now]
               /\ uploads' = [uploads EXCEPT ![r] = files]
               /\ stored' = stored \cup {Opened(r, now, files[1])}
               /\ cpc' = [cpc EXCEPT ![r] = [state |-> "reading", index |-> 1]]
    /\ UNCHANGED <<now, saved>>
    /\ UNCHANGED pdfVars
    /\ UNCHANGED personaVars
    /\ UNCHANGED formatterVars

\* The handler from one await to the next: the upload read is written and
\* processed, then either the next file is opened or the report is
\* formatted and saved as collection_<task_id>_analysis_<seconds>.json.
StoreUpload(r) ==
    /\ cpc[r].state = "reading"
    /\ IF cpc[r].index < Len(uploads[r])
       THEN /\ stored' = stored \cup
                    {Opened(r, task_id[r], uploads[r][cpc[r].index + 1])}
            /\ cpc' = [cpc EXCEPT ![r].index = cpc[r].index + 1]
            /\ UNCHANGED saved
       ELSE /\ saved' = saved \cup
                    {[name |-> CollectionOutputName(task_id[r], now), by |-> r]}
            /\ cpc' = [cpc EXCEPT ![r] = [state |-> "done", index |-> 0]]
            /\ UNCHANGED stored
    /\ UNCHANGED <<now, uploads, task_id>>
    /\ UNCHANGED pdfVars
    /\ UNCHANGED personaVars
    /\ UNCHANGED formatterVars

InitServer ==
    /\ PdfIdle
    /\ PersonaIdle
    /\ FormatterIdle
    /\ ServerIdle

NextServer ==
    \/ Tick
    \/ \E r \in Requests : ReceiveCollection(r)
    \/ \E r \in Requests : StoreUpload(r)

SpecServer == InitServer /\ [][NextServer]_vars

(***************************************************************************)
(* The endpoint /process-single of main.py.  The handler runs without      *)
(* interruption up to its await of file.read() and from there to           *)
(* asyncio.wait_for, which hands process_pdf_file to a task of its own and *)
(* waits; the handler goes on in a later turn of the event loop.           *)
(* process_pdf_file holds no await: the task ends in the turn in which it  *)
(* started and the timeout has no occasion to end it.  The request is      *)
(* request 1; its one reading of the clock that leaves a trace is the one  *)
(* of the name of the output file.                                         *)
(***************************************************************************)
\* The characters of a token text.
Chars(t) ==
    Concat([i \in 1..Len(t) |-> IF t[i] = 0 THEN <<"\n">> ELSE Letters(t[i])])

\* The title of a section of a result as a character string: the literals
\* f"Page {n} Content" and "Document Content" of the pdfplumber and the
\* Basic backend, the letter x for every character read from the document.
SectionTitleChars(r, section) ==
    IF r.processing_method = "pdfplumber"
    THEN <<"P", "a", "g", "e", " ">> \o Decimal(section.page) \o <<" ", "C", "o", "n", "t", "e", "n", "t">>
    ELSE IF r.processing_method = "Basic" THEN <<"D", "o", "c", "u", "m", "e", "n", "t", " ", "C", "o", "n", "t", "e", "n", "t">>
    ELSE Letters(section.title)

\* The text of a text_content entry of a result as a character string.
ParagraphChars(r, entry) ==
    IF r.processing_method = "Basic" THEN <<"P", "D", "F", " ", "c", "o", "n", "t", "e", "n", "t", " ", "c", "o", "u", "l", "d", " ", "n", "o", "t", " ", "b", "e", " ", "e", "x", "t", "r", "a", "c", "t", "e", "d">>
    ELSE Chars(entry.text)

\* The names tempfile.NamedTemporaryFile(suffix='.pdf', dir='input') picks.
TempNames == {"tmpk3x9_q2a.pdf"}

\* The metadata strings of the processor as character strings.
MetadataChars(s) ==
    IF s = "Annual Report" THEN <<"A", "n", "n", "u", "a", "l", " ", "R", "e", "p", "o", "r", "t">>
    ELSE IF s = "PDF Document" THEN <<"P", "D", "F", " ", "D", "o", "c", "u", "m", "e", "n", "t">>
    ELSE IF s = "PDF Content" THEN <<"P", "D", "F", " ", "C", "o", "n", "t", "e", "n", "t">>
    ELSE IF s = "doc.pdf" THEN <<"d", "o", "c", ".", "p", "d", "f">>
    ELSE IF s = "tmpk3x9_q2a.pdf" THEN <<"t", "m", "p", "k", "3", "x", "9", "_", "q", "2", "a", ".", "p", "d", "f">>
    ELSE <<>>

\* The arguments main.py hands to format_single_pdf_output (lines 103-111)
\* for the upload f and the result r of process_pdf_file.
SingleRequestOf(f, r, config) ==
    [NoRequest EXCEPT
        !.op = "single",
        !.filename = f.filename,
        !.metadata = [title |-> MetadataChars(r.metadata.title),
                      subject |-> MetadataChars(r.metadata.subject),
                      pages |-> r.metadata.pages],
        !.structure = [sections |->
            ToTuple([i \in 1..Len(r.structure.sections) |->
                [title |-> SectionTitleChars(r, r.structure.sections[i]),
                 page |-> r.structure.sections[i].page]])],
        !.content = [text_content |->
            ToTuple([i \in 1..Len(r.content.text_content) |->
                [text |-> ParagraphChars(r, r.content.text_content[i]),
                 page |-> r.content.text_content[i].page]])],
        !.persona_config = config]

\* The persona_config of the request as main.py parses it (lines 88-95).
\* Absent, blank, no JSON or {"persona_type": "auto"}: persona_type "auto";
\* {"persona_type": s} for the strings "travel_planner", "chef" and "";
\* {} (kind "none"); an object without persona_type (kind "missing");
\* {"persona_type": 7} or null (kind "other"); {"persona_type": [1]} (kind
\* "unhashable"); JSON that is no object: 7, "auto", [1] (kind "nodict")
\* and null, 0, false, "", [] (kind "falsy").
EndpointConfigs ==
    {[kind |-> "str", persona_type |-> AutoSlug],
     [kind |-> "str", persona_type |-> <<"t", "r", "a", "v", "e", "l", "_", "p", "l", "a", "n", "n", "e", "r">>],
     [kind |-> "str", persona_type |-> <<"c", "h", "e", "f">>],
     [kind |-> "str", persona_type |-> <<>>],
     [kind |-> "none", persona_type |-> <<>>],
     [kind |-> "missing", persona_type |-> <<>>],
     [kind |-> "other", persona_type |-> <<>>],
     [kind |-> "unhashable", persona_type |-> <<>>],
     [kind |-> "nodict", persona_type |-> <<>>],
     [kind |-> "falsy", persona_type |-> <<>>]}

\* The configurations without a method get: config.get raises
\* AttributeError at line 143.
HasGet(config) == config.kind \notin {"nodict", "falsy"}

\* The names of the personas given as strings.
ArgChars ==
    SlugChars @@ ("auto" :> AutoSlug) @@ ("chef" :> <<"c", "h", "e", "f">>)
        @@ ("" :> <<>>)

\* config.get("persona_type", "general") as the argument of
\* analyze_content; "<other>" is a value that is neither a string nor a
\* name of the table.
PersonaArgOf(config) ==
    IF config.kind \in {"none", "missing"} THEN "general"
    ELSE IF config.kind = "unhashable" THEN Unhashable
    ELSE IF config.kind = "other" THEN "<other>"
    ELSE CHOOSE s \in DOMAIN ArgChars : ArgChars[s] = config.persona_type

\* The files uploaded with a request to /process-single.
SingleUploads ==
    {[filename |-> <<"c", "o", "l", "l", "e", "c", "t", "i", "o", "n", "_", "t", "a", "s", "k", "_", "1", ".", "p", "d", "f">>, size |-> FileSize],
     [filename |-> <<"B", ".", "P", "D", "F">>, size |-> 0],
     [filename |-> <<"n", "o", "t", "e", "s", ".", "t", "x", "t">>, size |-> 1],
     [filename |-> <<"h", "u", "g", "e", ".", "p", "d", "f">>, size |-> MAX_FILE_SIZE + 1]}

\* The temporary file of the request in the directory input.
TempFile(name) == [dir |-> NoTask, filename |-> MetadataChars(name), by |-> 1]

\* str.replace(old, ""): the occurrences of old, found from left to right,
\* are left out.
RECURSIVE Without(_, _)
Without(t, old) ==
    IF t = <<>> THEN <<>>
    ELSE IF MatchAt(t, old, 1) THEN Without(SubSeq(t, Len(old) + 1, Len(t)), old)
    ELSE <<Head(t)>> \o Without(Tail(t), old)

\* f"{file.filename.replace('.pdf', '')}_analysis_{int(time.time())}.json"
SingleOutputName(filename, seconds) ==
    Without(filename, <<".", "p", "d", "f">>) \o <<"_", "a", "n", "a", "l", "y", "s", "i", "s", "_">> \o Decimal(seconds) \o <<".", "j", "s", "o", "n">>

\* The request: the file uploaded and the persona_config sent with it.
SingleRequest(upload, config) ==
    [filename |-> upload.filename, size |-> upload.size, persona_config |-> config]

\* process_single_pdf from its start to the await of file.read(): the
\* validation, whose HTTPException the handler's own `except Exception`
\* turns into a response of status 500, and the creation of the temporary
\* file.
ReceiveSingle ==
    /\ cpc[1].state = "idle"
    /\ \E upload \in SingleUploads :
          IF Rejected(<<upload>>)
          THEN /\ cpc' = [cpc EXCEPT ![1] = [state |-> "failed", index |-> 0]]
               /\ UNCHANGED <<uploads, stored, file>>
          ELSE \E name \in TempNames : \E config \in EndpointConfigs :
               /\ TempFile(name) \notin stored
               /\ stored' = stored \cup {TempFile(name)}
               /\ uploads' = [uploads EXCEPT ![1] = <<SingleRequest(upload, config)>>]
               /\ file' = [state |-> "ok", size |-> 0, name |-> name]
               /\ cpc' = [cpc EXCEPT ![1] = [state |-> "receiving", index |-> 1]]
    /\ UNCHANGED <<now, task_id, saved>>
    /\ UNCHANGED <<pc, env, attempted, result, propagated>>
    /\ UNCHANGED personaVars
    /\ UNCHANGED formatterVars

\* The upload read is written to the temporary file, the configuration is
\* parsed and asyncio.wait_for makes the task of process_pdf_file, which
\* starts with the call of process_pdf for the temporary file.
WriteSingle ==
    /\ cpc[1].state = "receiving"
    /\ file' = [file EXCEPT !.size = uploads[1][1].size]
    /\ pc' = "start"
    /\ cpc' = [cpc EXCEPT ![1] = [state |-> "processing", index |-> 1]]
    /\ UNCHANGED <<now, uploads, task_id, stored, saved>>
    /\ UNCHANGED <<env, attempted, result, propagated>>
    /\ UNCHANGED personaVars
    /\ UNCHANGED formatterVars

\* The text_content of the request as the argument of analyze_content.
AnalysisItems(paragraphs) ==
    ToTuple([i \in 1..Len(paragraphs) |->
                [has_text |-> TRUE, text |-> paragraphs[i].text]])

\* process_pdf_file after process_pdf has returned (lines 140-147): with
\* text in the result, analyze_content is called with the persona_type of
\* the configuration; a configuration without get() raises there, the
\* handler answers with status 500 and the temporary file stays.
ProcessPdfFile ==
    /\ cpc[1].state = "processing"
    /\ pc = "done"
    /\ LET config == uploads[1][1].persona_config
           paragraphs == SingleRequestOf(uploads[1][1], result, config).content.text_content
       IN  IF paragraphs = <<>>
           THEN /\ cpc' = [cpc EXCEPT ![1] = [state |-> "formatting", index |-> 1]]
                /\ UNCHANGED personaVars
           ELSE IF ~HasGet(config)
           THEN /\ cpc' = [cpc EXCEPT ![1] = [state |-> "failed", index |-> 0]]
                /\ UNCHANGED personaVars
           ELSE /\ text_content' = AnalysisItems(paragraphs)
                /\ persona_type' = PersonaArgOf(config)
                /\ analysis' = AnalyzeContent(text_content', persona_type')
                /\ ppc' = "analyzed"
                /\ cpc' = [cpc EXCEPT ![1] = [state |-> "formatting", index |-> 1]]
                /\ UNCHANGED detected
    /\ UNCHANGED <<now, uploads, task_id, stored, saved>>
    /\ UNCHANGED pdfVars
    /\ UNCHANGED formatterVars

\* process_single_pdf after asyncio.wait_for has returned (lines 100-125):
\* the report is formatted and saved under a name that holds the second
\* the clock shows by then, and the temporary file is removed.
ProcessSinglePdf ==
    /\ cpc[1].state = "formatting"
    /\ request' = SingleRequestOf(uploads[1][1], result, uploads[1][1].persona_config)
    /\ report' = FormatSinglePdfOutput(request'.filename, request'.metadata,
                                       request'.structure, request'.content,
                                       request'.persona_config)
    /\ fpc' = "done"
    /\ stored' = stored \ {TempFile(file.name)}
    /\ cpc' = [cpc EXCEPT ![1] = [state |-> "done", index |-> 0]]
    /\ \E seconds \in now..MaxClock :
          /\ now' = seconds
          /\ saved' = saved \cup
                {[name |-> SingleOutputName(uploads[1][1].filename, seconds), by |-> 1]}
    /\ UNCHANGED <<uploads, task_id>>
    /\ UNCHANGED <<enhanced_title, title_again, enhanced_text, merged>>
    /\ UNCHANGED personaVars
    /\ UNCHANGED pdfVars

NextSingle ==
    \/ ReceiveSingle
    \/ WriteSingle
    \/ ProcessPdf
    \/ TryFitz
    \/ TryPypdf2
    \/ TryPdfplumber
    \/ TryBasic
    \/ ProcessPdfFile
    \/ ProcessSinglePdf

SpecSingle == InitServer /\ [][NextSingle]_vars

\* The backend whose result process_pdf returned.
AcceptedBackend == Last(attempted)

\* The pages the accepted backend read hold no heading and no paragraph
\* long enough to be kept.
NothingExtractable ==
    /\ attempted # <<>>
    /\ Succeeded(AcceptedBackend)
    /\ AcceptedBackend # "Basic"
    /\ AnswerOf(AcceptedBackend).fault = "none"
    /\ result.structure.sections = <<>>
    /\ result.content.text_content = <<>>

\* C21: a document without extractable heading and without a paragraph
\* long enough to be kept gives a single-document report with exactly one
\* section, "Document Content" with rank 1 on page 1, and at most one
\* subsection analysis.
C21_DocumentContentSection ==
    (fpc = "done" /\ NothingExtractable /\ ~report.metadata.error) =>
        /\ report.extracted_sections =
              <<[document |-> request.filename,
                 section_title |-> <<"D", "o", "c", "u", "m", "e", "n", "t", " ", "C", "o", "n", "t", "e", "n", "t">>,
                 importance_rank |-> 1, page_number |-> 1]>>
        /\ Len(report.subsection_analysis) <= 1

\* PyMuPDF read one page holding the 12 characters of "Hello world." in a
\* font of size 11, and the report has the one section and one analysis.
C21_Witness ==
    /\ fpc = "done"
    /\ NothingExtractable
    /\ AcceptedBackend = "PyMuPDF"
    /\ Len(env.fitz.doc.pages) = 1
    /\ env.fitz.doc.pages[1].text = <<12>>
    /\ Len(report.extracted_sections) = 1
    /\ Len(report.subsection_analysis) = 1


(***************************************************************************)
(* Properties of the handlers of _enhance_section_title and of             *)
(* _enhance_analysis_text.                                                 *)
(***************************************************************************)
EnhancedTextReturned == fpc = "done" /\ request.op = "enhance_text"

\* A fault arose inside _enhance_section_title: the title is no string, or
\* it is not returned as it is and the document name, needed next, is no
\* string.
TitleFaulted ==
    /\ request.op = "enhance_title"
    /\ fpc \in {"done", "raised"}
    /\ IF IsStr(request.original_title)
       THEN /\ ~IsStr(request.document_name)
            /\ ~IsConcise(StrStrip(request.original_title))
       ELSE TRUE

\* A fault arose inside _enhance_analysis_text: the text is no string, or
\* it is not returned as it is, none of its sentences is kept and the
\* document name, needed next, is no string.
TextFaulted ==
    /\ request.op = "enhance_text"
    /\ fpc \in {"done", "raised"}
    /\ IF IsStr(request.original_text)
       THEN /\ ~IsStr(request.document_name)
            /\ ~(/\ Len(request.original_text) <= 200
                 /\ ContainsAny(Lower(request.original_text), ConciseTextWords))
            /\ MeaningfulSentences(StrippedSentences(
                   DropPrefixes(StrStrip(request.original_text), 1))) = <<>>
       ELSE TRUE

\* The processed documents of the request that have no file name.
NamelessResults ==
    {r \in {request.results[n] : n \in 1..Len(request.results)} :
        IsProcessed(r) /\ ~IsStr(r.filename)}

\* Report assembly hands a title that is a number to
\* _enhance_section_title: it is the title of a section of a processed
\* document before which the document has fewer than two titled sections.
NumberTitleEnhanced ==
    \E n \in 1..Len(request.results) :
        /\ IsProcessed(request.results[n])
        /\ LET sections == request.results[n].result.structure.sections
           IN  \E k \in 1..Len(sections) :
                  /\ sections[k].title = NumberValue
                  /\ Cardinality({m \in 1..(k - 1) :
                                     sections[m].title \notin {<<>>, NoneValue}}) < 2

\* The raw titles of the sections on the page of a document without file
\* name, and the refined texts of its paragraphs on the page.
RawTitlesOn(page) ==
    UNION {{r.result.structure.sections[k].title :
               k \in {m \in 1..Len(r.result.structure.sections) :
                         r.result.structure.sections[m].page = page}} :
           r \in NamelessResults}

RawTextsOn(page) ==
    UNION {{RefineText(r.result.content.text_content[k].text) :
               k \in {m \in 1..Len(r.result.content.text_content) :
                         r.result.content.text_content[m].page = page}} :
           r \in NamelessResults}

\* The first n characters of a string.
Prefix(t, n) == SubSeq(t, 1, Min(n, Len(t)))

\* C22 as stated: after a fault inside enhance_title or enhance_text the
\* function returns the original input string, unmodified; the report is
\* still produced and the affected title and text equal the raw input.
C22_ReturnsOriginalInput ==
    /\ TitleFaulted => fpc = "done" /\ enhanced_title = request.original_title
    /\ TextFaulted => fpc = "done" /\ enhanced_text = request.original_text
    /\ CollectionReported =>
          /\ ~report.metadata.error
          /\ \A i \in 1..Len(report.extracted_sections) :
                ~IsStr(report.extracted_sections[i].document) =>
                    report.extracted_sections[i].section_title
                        \in RawTitlesOn(report.extracted_sections[i].page_number)
          /\ \A i \in 1..Len(report.subsection_analysis) :
                ~IsStr(report.subsection_analysis[i].document) =>
                    report.subsection_analysis[i].refined_text
                        \in RawTextsOn(report.subsection_analysis[i].page_number)

\* C22, amended: after a fault with a title or text that is a string the
\* function returns the first 30 characters of the original title, the
\* first 200 characters of the original text; the collection report is
\* still produced and the entries of a document without file name hold
\* such a prefix, a title with or without its surrounding whitespace.  With
\* a title or text that is None or a number the exception leaves the
\* function, and report assembly answers the error report.
C22_ReturnsOriginalPrefix ==
    /\ TitleFaulted =>
          IF IsStr(request.original_title)
          THEN /\ fpc = "done"
               /\ enhanced_title = Prefix(request.original_title, 30)
          ELSE fpc = "raised"
    /\ TextFaulted =>
          IF IsStr(request.original_text)
          THEN /\ fpc = "done"
               /\ enhanced_text = Prefix(request.original_text, 200)
          ELSE fpc = "raised"
    /\ CollectionReported =>
          IF NumberTitleEnhanced
          THEN /\ report.metadata.error
               /\ report.extracted_sections = <<>>
               /\ report.subsection_analysis = <<>>
          ELSE /\ ~report.metadata.error
               /\ \A i \in 1..Len(report.extracted_sections) :
                     ~IsStr(report.extracted_sections[i].document) =>
                        \E t \in RawTitlesOn(report.extracted_sections[i].page_number) :
                            report.extracted_sections[i].section_title
                                \in {Prefix(t, 30), StrStrip(Prefix(t, 30))}
               /\ \A i \in 1..Len(report.subsection_analysis) :
                     ~IsStr(report.subsection_analysis[i].document) =>
                        \E t \in RawTextsOn(report.subsection_analysis[i].page_number) :
                            report.subsection_analysis[i].refined_text = Prefix(t, 200)

\* Report assembly with a document without file name: the collection
\* report is produced, a title of more than 30 characters is in it cut to
\* 30 and a text of more than 200 characters cut to 200.
C22_Witness ==
    /\ CollectionAssembled
    /\ \E i \in 1..Len(report.extracted_sections) :
          /\ ~IsStr(report.extracted_sections[i].document)
          /\ Len(report.extracted_sections[i].section_title) = 30
          /\ \E t \in RawTitlesOn(report.extracted_sections[i].page_number) :
                /\ Len(t) > 30
                /\ report.extracted_sections[i].section_title = Prefix(t, 30)
    /\ \E i \in 1..Len(report.subsection_analysis) :
          /\ ~IsStr(report.subsection_analysis[i].document)
          /\ Len(report.subsection_analysis[i].refined_text) = 200
          /\ \E t \in RawTextsOn(report.subsection_analysis[i].page_number) :
                Len(t) > 200


(***************************************************************************)
(* Properties of _enhance_analysis_text.                                   *)
(***************************************************************************)
\* A call with a document name that is a string has returned.
TextEnhanced == EnhancedTextReturned /\ request.document_name # NoneValue

\* The text is short and holds an action or domain keyword.
ShortWithKeyword ==
    /\ Len(request.original_text) <= 200
    /\ ContainsAny(Lower(request.original_text), ConciseTextWords)

\* The sentences of the text without its boilerplate prefixes.
SentencesRead ==
    StrippedSentences(DropPrefixes(StrStrip(request.original_text), 1))

\* The sentences that hold a keyword of the fixed set, of any length and
\* of more than 20 characters.
KeywordSentences ==
    SelectSeq(SentencesRead, LAMBDA s : ContainsAny(Lower(s), SentenceWords))

LongKeywordSentences == SelectSeq(KeywordSentences, LAMBDA s : Len(s) > 20)

FirstTwoJoined(sentences) ==
    IF Len(sentences) = 1 THEN sentences[1]
    ELSE sentences[1] \o <<".", " ">> \o sentences[2]

CannedSentences ==
    UNION {{TextBuckets[b].rules[r].text : r \in 1..Len(TextBuckets[b].rules)} :
              b \in 1..Len(TextBuckets)}

\* The first-sentence fallback and the truncation to 200 characters.
FallbackTexts ==
    Bind(DropPrefixes(StrStrip(request.original_text), 1), LAMBDA text :
        {SentencesRead[i] \o <<".">> : i \in 1..Len(SentencesRead)}
        \cup {text, SubSeq(text, 1, Min(200, Len(text))) \o <<".", ".", ".">>})

\* C23 as stated: (1) a text of at most 200 characters holding a keyword is
\* returned unchanged; otherwise (2) if a sentence holds a keyword of the
\* fixed set, the first up to 2 such sentences joined with ". " are
\* returned; only otherwise (3) a canned sentence or (4) the fallback.
C23_CascadeAnySentence ==
    TextEnhanced =>
        IF ShortWithKeyword THEN enhanced_text = request.original_text
        ELSE IF KeywordSentences # <<>>
        THEN enhanced_text \in {FirstTwoJoined(KeywordSentences),
                                FirstTwoJoined(KeywordSentences) \o <<".">>}
        ELSE enhanced_text \in CannedSentences \cup FallbackTexts

\* C23, amended: in step (2) only sentences of more than 20 characters
\* count, and the joined sentences are closed by a period.
C23_CascadeLongSentences ==
    TextEnhanced =>
        IF ShortWithKeyword THEN enhanced_text = request.original_text
        ELSE IF LongKeywordSentences # <<>>
        THEN enhanced_text = FirstTwoJoined(LongKeywordSentences) \o <<".">>
        ELSE enhanced_text \in CannedSentences \cup FallbackTexts

\* Three sentences qualify, the first two are returned, for a document
\* name that selects a bucket.
C23_Witness ==
    /\ TextEnhanced
    /\ ~ShortWithKeyword
    /\ Len(LongKeywordSentences) = 3
    /\ enhanced_text = FirstTwoJoined(LongKeywordSentences) \o <<".">>
    /\ Contains(Lower(request.document_name), <<"p", "d", "f">>)


(***************************************************************************)
(* Properties of the results of process_pdf.                               *)
(***************************************************************************)
\* process_pdf returned the result of the PyMuPDF backend.
ReturnedByFitz ==
    pc = "done" /\ result.error = Absent /\ result.processing_method = "PyMuPDF"

\* C24: the PyMuPDF structure scan records at most one section per page,
\* and the list it returns holds at most 10 sections.
C24_OneSectionPerPage ==
    ReturnedByFitz =>
        /\ Len(result.structure.sections) <= 10
        /\ \A i \in 1..Len(result.structure.sections) :
              \A j \in 1..Len(result.structure.sections) :
                  result.structure.sections[i].page = result.structure.sections[j].page
                      => i = j


NonDecreasingPages(entries) ==
    \A i \in 1..(Len(entries) - 1) : entries[i].page <= entries[i + 1].page

EntriesOfPage(entries, p) == {i \in 1..Len(entries) : entries[i].page = p}

\* C25: in every result of process_pdf a section has a title of at most
\* 100 characters and a page of at least 1, a text_content entry a text of
\* at most 500 characters and a page of at least 1, no page has more than 3
\* text_content entries, and the entries are in non-decreasing page order.
C25_ResultShape ==
    pc = "done" =>
        /\ \A i \in 1..Len(result.structure.sections) :
              /\ result.structure.sections[i].title <= 100
              /\ result.structure.sections[i].page >= 1
        /\ \A i \in 1..Len(result.content.text_content) :
              /\ StrLen(result.content.text_content[i].text) <= 500
              /\ result.content.text_content[i].page >= 1
              /\ Cardinality(EntriesOfPage(result.content.text_content,
                        result.content.text_content[i].page)) <= 3
        /\ NonDecreasingPages(result.structure.sections)
        /\ NonDecreasingPages(result.content.text_content)

\* Two pages of four long paragraphs each, one of 600 characters: three
\* entries per page, one of them cut to 500 characters.
C25_Witness ==
    /\ pc = "done"
    /\ result.processing_method = "pdfplumber"
    /\ Len(result.content.text_content) = 6
    /\ Cardinality(EntriesOfPage(result.content.text_content, 2)) = 3
    /\ \E i \in 1..6 : StrLen(result.content.text_content[i].text) = 500
    /\ Len(result.structure.sections) = 2


PrechecksPassed == Precheck(file) = Absent

BasicFaulted == env.basic.fault = "getsize"

\* C26: once the file-access checks have passed, process_pdf returns a
\* result without an error unless the Basic backend itself faults: a result
\* with an error is only returned after all four backends were run, Basic
\* last, and it is the "All processing methods failed" result.
C26_BasicAlwaysAccepted ==
    (pc = "done" /\ PrechecksPassed) =>
        /\ ~BasicFaulted => ~Truthy(result.error)
        /\ Truthy(result.error) =>
              /\ attempted = BackendOrder
              /\ BasicFaulted
              /\ result.error = AllFailedMessage
        /\ (env.basic # NotCalled) =>
              /\ Len(attempted) = Len(BackendOrder)
              /\ env.fitz # NotCalled
              /\ env.pypdf2 # NotCalled
              /\ env.pdfplumber # NotCalled

\* PyMuPDF found the file encrypted, the two other libraries could not open
\* it, and the Basic result was returned.
C26_Witness ==
    /\ pc = "done"
    /\ PrechecksPassed
    /\ attempted = BackendOrder
    /\ env.fitz.fault = "encrypted"
    /\ env.pypdf2.fault = "open"
    /\ env.pdfplumber.fault = "open"
    /\ ~BasicFaulted
    /\ result.processing_method = "Basic"
    /\ ~Truthy(result.error)


\* C27: _enhance_section_title is idempotent: enhancing an enhanced title
\* a second time with the same document name, as the collection path does,
\* returns it unchanged.
C27_EnhanceTitleIdempotent ==
    fpc = "again" => title_again = enhanced_title


(***************************************************************************)
(* The domain buckets of _enhance_section_title.                           *)
(***************************************************************************)
\* A call with a string document name got past the "already concise" test.
TitleRewritten ==
    /\ EnhancedTitleReturned
    /\ request.document_name # NoneValue
    /\ ~IsConcise(StrStrip(request.original_title))

\* The buckets whose words occur in the document name, and the first of
\* them in the order technical, travel, business, academic, legal, medical.
MatchingBuckets ==
    {b \in 1..Len(TitleBuckets) :
        \E w \in TitleBuckets[b].doc : Contains(Lower(request.document_name), w)}

FirstMatchingBucket == IF MatchingBuckets = {} THEN 0 ELSE SetMin(MatchingBuckets)

LabelsOfBucket(b) ==
    {TitleBuckets[b].rules[r].label : r \in 1..Len(TitleBuckets[b].rules)}

\* Some rule of bucket b matches the title.
BucketHasRule(b) ==
    \E r \in 1..Len(TitleBuckets[b].rules) :
        \E w \in TitleBuckets[b].rules[r].any :
            Contains(Lower(StrStrip(request.original_title)), w)

\* C28: only the first bucket that matches the document name is consulted:
\* no label of another bucket is returned, and when the consulted bucket has
\* no matching rule, or no bucket matches, the generic fallback is returned;
\* a name that contains "pdf" consults the technical bucket.
C28_FirstBucketOnly ==
    TitleRewritten =>
        /\ \A b \in 1..Len(TitleBuckets) :
              b # FirstMatchingBucket => enhanced_title \notin LabelsOfBucket(b)
        /\ (/\ FirstMatchingBucket # 0 => ~BucketHasRule(FirstMatchingBucket)
            /\ ~ActionTitle(StrStrip(request.original_title)).found)
              => enhanced_title = DefaultTitle(StrStrip(request.original_title))
        /\ Contains(Lower(request.document_name), <<"p", "d", "f">>) =>
              /\ FirstMatchingBucket = 1
              /\ enhanced_title \in
                    LabelsOfBucket(1)
                    \cup {ActionTitle(StrStrip(request.original_title)).value,
                          DefaultTitle(StrStrip(request.original_title))}

\* The name "travel_guide.pdf" matches the technical and the travel bucket,
\* the title only a rule of the travel bucket: the fallback is returned.
C28_Witness ==
    /\ TitleRewritten
    /\ MatchingBuckets = {1, 2}
    /\ ~BucketHasRule(1)
    /\ BucketHasRule(2)
    /\ request.original_title = TitleCoastal
    /\ enhanced_title = <<"A", " ", "v", "e", "r", "y", " ", "l", "o", "n", "g">>


(***************************************************************************)
(* The persona name of a report.                                           *)
(***************************************************************************)
\* The display names: the keys of the job description table.
DisplayNames == {JobDescriptions[i].persona : i \in 1..Len(JobDescriptions)}

\* C29: the metadata.persona of every report (single document, collection
\* or error output) is one of the eight display names.
C29_PersonaIsDisplayName ==
    (fpc = "done" /\ request.op \in {"single", "collection"}) =>
        report.metadata.persona \in DisplayNames


\* C30: two /process-collection requests get different task identifiers,
\* and so different collection directories and output files: no request
\* opens a file in the directory of the other, and no two requests save
\* their report under the same name.
C30_TasksKeptApart ==
    \A r1 \in Requests : \A r2 \in Requests \ {r1} :
        /\ (task_id[r1] # NoTask /\ task_id[r2] # NoTask)
              => task_id[r1] # task_id[r2]
        /\ \A f \in stored : f.by = r1 => f.dir # task_id[r2]
        /\ \A o \in saved : \A p \in saved :
              (o.by = r1 /\ p.by = r2) => o.name # p.name

=============================================================================
